---------------------------- MODULE Spec2Model ----------------------------
(***************************************************************************)
(* Document ingestion glue of the chat-with-your-data backend: the lazily  *)
(* constructed JsonDocumentSettings singleton, the loader factory          *)
(* get_document_loader, the CSV loader and the JSON loader, the source     *)
(* document classes, the structured chunker and the builders of the search *)
(* index and indexer.                                                      *)
(*                                                                         *)
(* The specifications share the module's variables:                        *)
(*   Spec         threads constructing JsonDocumentLoading objects (each   *)
(*                construction calls JsonDocumentSettings()), interleaved  *)
(*                with JsonDocumentSettings.clear_instance;                *)
(*   SpecStrategy one thread calling get_document_loader repeatedly;       *)
(*   SpecCsv      CsvDocumentLoading.load applied to a CSV file;           *)
(*   SpecJson     JsonDocumentLoading.load applied to a downloaded payload;*)
(*   SpecDocs     the operations of SourceDocumentEnhanced applied to the  *)
(*                documents constructed so far;                            *)
(*   SpecMeta     SourceDocumentEnhanced.from_metadata applied to its      *)
(*                arguments;                                               *)
(*   SpecChunk    StructuredDocumentChunking.chunk applied to a list of    *)
(*                loaded documents;                                        *)
(*   SpecSearch   calls of AzureSearchIndex.create_or_update_index and of  *)
(*                the AzureSearchIndexer methods, whose requests may fail. *)
(***************************************************************************)
EXTENDS Integers, Sequences, FiniteSets, TLC

(* ------------------------------ bounds -------------------------------- *)

\* threads that construct settings concurrently
NumThreads == 2

\* constructor calls made by one thread
MaxCalls == 1

\* calls of clear_instance in one run
MaxClears == 1

\* calls of get_document_loader in one run of SpecStrategy
MaxLoaderCalls == 3

\* lines of a CSV file
MaxRows == 4

\* fields of its schema that a JSON payload leaves out
MaxAbsent == 1

\* entries of a payload's publications list
MaxPubs == 2

(* --------------------------- state variables -------------------------- *)

VARIABLES
    _instance,     \* JsonDocumentSettings._instance: None or an object id
    _lock,         \* JsonDocumentSettings._lock: the thread holding it, or None
    heap,          \* the settings objects allocated so far, by object id
    pc,            \* per thread: its position in JsonDocumentSettings()
    instance,      \* per thread: the local `instance` of __new__, then the value returned
    ret,           \* per thread: the result of its last completed call
    calls,         \* per thread: constructor calls completed
    clears,        \* calls of clear_instance so far
    loader_strategy, \* per thread: the argument of its get_document_loader call
    loaders,       \* the loader objects created so far, in creation order
    returned,      \* history: every value a JsonDocumentSettings() call returned
    document_url,  \* the argument of load
    load_pc,       \* the position of the load call
    source_documents, \* the list load returns
    raised,        \* the exception load raised, NoException when none
    csv_file,      \* the CSV file at document_url: its lines
    data,          \* what orjson.loads made of the document downloaded from document_url
    return_dict,   \* return_dict of _load_schema_from_dict
    writes,        \* history: the item assignments made to return_dict's dictionaries
    docs,          \* the source documents created so far, by object id
    last_op,       \* the last operation on source documents: its name, arguments, result
    _search_dimension, \* AzureSearchIndex._search_dimension (class attribute)
    embed_len,     \* per AzureSearchIndex instance: the embedding length its llm_helper reports
    index_requests,   \* history: the index definitions submitted to the index client
    indexer_requests, \* history: the requests made to the indexer client
    skillset_requests, \* history: the skillsets submitted by AzureSearchSkillset
    search_calls   \* history: the completed calls of the builders and their outcomes

settingsVars == <<_instance, _lock, heap, pc, instance, ret, calls, clears,
                  loader_strategy, loaders, returned>>

\* the state of one load call of a loader
ioVars == <<document_url, load_pc, source_documents, raised, csv_file,
           data, return_dict, writes>>

\* the source document objects and the last operation applied to them
docVars == <<docs, last_op>>

\* the state of the search index and indexer builders
searchVars == <<_search_dimension, embed_len, index_requests,
               indexer_requests, skillset_requests, search_calls>>

vars == <<settingsVars, ioVars, docVars, searchVars>>


\* Python's None in a slot that otherwise holds an object id or a thread id
\* (both count from 1).
None == 0

Threads == 1..NumThreads

\* An exception: its class, what its message says and the field it names.
Exception(type, msg) == [type |-> type, msg |-> msg, field |-> ""]

NoException == Exception("", "")

\* Python values: None, a non-empty string, a number, a list, a dictionary.
PyNone == [kind |-> "None"]

PyStr == [kind |-> "str"]

PyNum == [kind |-> "int"]

PyList(items) == [kind |-> "list", items |-> items]

PyDict(fields) == [kind |-> "dict", fields |-> fields]

Range(seq) == {seq[i] : i \in DOMAIN seq}

\* The thread that calls get_document_loader and load: the first one.
MainThread == CHOOSE t \in Threads : \A u \in Threads : t <= u

(* ------------------- JsonDocumentSettings (singleton) ----------------- *)

\* An object as object.__new__ returns it: no attribute assigned yet.
RawObject == [inits |-> 0, _strict_keys |-> FALSE]

\* An __init__ that turns strict mode on.
RunInitStrict(obj) == [obj EXCEPT !.inits = @ + 1, !._strict_keys = TRUE]

\* JsonDocumentSettings.__init__ : assigns _strict_keys = False and builds
\* every key table anew; inits counts the runs of the body on the object.
RunInit(obj) == [obj EXCEPT !.inits = @ + 1, !._strict_keys = FALSE]

\* JsonDocumentSettings.get_strict_keys of object o
get_strict_keys(o) == heap[o]._strict_keys

NoResult == [kind |-> "none", type |-> "", id |-> 0, settings |-> None]

\* A lock that excludes nobody: what `with cls._lock` would be were it missing.
LockFreeAlways(t) == TRUE

\* threading.Lock: `with cls._lock` is entered only while nobody holds it.
LockFree(t) == _lock = None

\* JsonDocumentLoading.__init__ starts: it calls JsonDocumentSettings().
JsonDocumentLoading_init(t) ==
    /\ pc[t] = "idle"
    /\ calls[t] < MaxCalls
    /\ pc' = [pc EXCEPT ![t] = "acquire"]
    /\ loader_strategy' = [loader_strategy EXCEPT ![t] = "json"]
    /\ UNCHANGED <<_instance, _lock, heap, instance, ret, calls, clears, loaders, returned>>
    /\ UNCHANGED <<ioVars, docVars, searchVars>>

\* __new__, line 20: with cls._lock
new_acquire(t) ==
    /\ pc[t] = "acquire"
    /\ LockFree(t)
    /\ _lock' = t
    /\ pc' = [pc EXCEPT ![t] = "check"]
    /\ UNCHANGED <<_instance, heap, instance, ret, calls, clears,
                   loader_strategy, loaders, returned>>
    /\ UNCHANGED <<ioVars, docVars, searchVars>>

\* __new__, line 21: if cls._instance is None
new_check(t) ==
    /\ pc[t] = "check"
    /\ pc' = [pc EXCEPT ![t] = IF _instance = None THEN "alloc" ELSE "return"]
    /\ UNCHANGED <<_instance, _lock, heap, instance, ret, calls, clears,
                   loader_strategy, loaders, returned>>
    /\ UNCHANGED <<ioVars, docVars, searchVars>>

\* __new__, line 22: instance = super().__new__(cls)
new_alloc(t) ==
    /\ pc[t] = "alloc"
    /\ heap' = Append(heap, RawObject)
    /\ instance' = [instance EXCEPT ![t] = Len(heap) + 1]
    /\ pc' = [pc EXCEPT ![t] = "init"]
    /\ UNCHANGED <<_instance, _lock, ret, calls, clears, loader_strategy, loaders, returned>>
    /\ UNCHANGED <<ioVars, docVars, searchVars>>

\* __new__, line 23: instance.__init__()
new_init(t) ==
    /\ pc[t] = "init"
    /\ heap' = [heap EXCEPT ![instance[t]] = RunInit(@)]
    /\ pc' = [pc EXCEPT ![t] = "store"]
    /\ UNCHANGED <<_instance, _lock, instance, ret, calls, clears,
                   loader_strategy, loaders, returned>>
    /\ UNCHANGED <<ioVars, docVars, searchVars>>

\* __new__, line 24: cls._instance = instance
new_store(t) ==
    /\ pc[t] = "store"
    /\ _instance' = instance[t]
    /\ pc' = [pc EXCEPT ![t] = "return"]
    /\ UNCHANGED <<_lock, heap, instance, ret, calls, clears,
                   loader_strategy, loaders, returned>>
    /\ UNCHANGED <<ioVars, docVars, searchVars>>

\* __new__, line 25: return cls._instance, which leaves the with block
new_return(t) ==
    /\ pc[t] = "return"
    /\ instance' = [instance EXCEPT ![t] = _instance]
    /\ _lock' = IF _lock = t THEN None ELSE _lock
    /\ returned' = returned \cup {_instance}
    /\ pc' = [pc EXCEPT ![t] = "call_init"]
    /\ UNCHANGED <<_instance, heap, ret, calls, clears, loader_strategy, loaders>>
    /\ UNCHANGED <<ioVars, docVars, searchVars>>

\* The rest of the call JsonDocumentSettings(): the object __new__ returned is
\* an instance of the class, so the call runs __init__ on it (lines 35-145),
\* outside the lock; JsonDocumentLoading.__init__ then stores it in
\* self.settings and the new loader is returned.
call_init(t) ==
    /\ pc[t] = "call_init"
    /\ heap' = IF instance[t] = None THEN heap
               ELSE [heap EXCEPT ![instance[t]] = RunInit(@)]
    /\ loaders' = Append(loaders, "JsonDocumentLoading")
    /\ ret' = [ret EXCEPT ![t] = [kind |-> "loader",
                                  type |-> "JsonDocumentLoading",
                                  id |-> Len(loaders) + 1,
                                  settings |-> instance[t]]]
    /\ calls' = [calls EXCEPT ![t] = @ + 1]
    /\ pc' = [pc EXCEPT ![t] = "idle"]
    /\ UNCHANGED <<_instance, _lock, instance, clears, loader_strategy, returned>>
    /\ UNCHANGED <<ioVars, docVars, searchVars>>

\* JsonDocumentSettings.clear_instance (classmethod, takes no lock)
clear_instance ==
    /\ clears < MaxClears
    /\ _instance' = IF _instance # None THEN None ELSE _instance
    /\ clears' = clears + 1
    /\ UNCHANGED <<_lock, heap, pc, instance, ret, calls, loader_strategy, loaders, returned>>
    /\ UNCHANGED <<ioVars, docVars, searchVars>>

SettingsStep(t) ==
    \/ new_acquire(t)
    \/ new_check(t)
    \/ new_alloc(t)
    \/ new_init(t)
    \/ new_store(t)
    \/ new_return(t)
    \/ call_init(t)

InitSettings ==
    /\ _instance = None
    /\ _lock = None
    /\ heap = <<>>
    /\ pc = [t \in Threads |-> "idle"]
    /\ instance = [t \in Threads |-> None]
    /\ ret = [t \in Threads |-> NoResult]
    /\ calls = [t \in Threads |-> 0]
    /\ clears = 0
    /\ loader_strategy = [t \in Threads |-> ""]
    /\ loaders = <<>>
    /\ returned = {}

\* No load call is in progress: the state of the load variables in the
\* specifications that are not about loading.
NoLoad ==
    /\ document_url = ""
    /\ load_pc = "none"
    /\ source_documents = <<>>
    /\ raised = NoException
    /\ csv_file = <<>>
    /\ data = PyNone
    /\ return_dict = [content |-> <<>>, metadata |-> <<>>]
    /\ writes = {}

\* No operation on source documents has been made.
NoOp == [op |-> "none", args |-> <<>>, result |-> PyNone]

\* No source document exists: the state of the document variables in the
\* specifications that are not about source documents.
NoDocs ==
    /\ docs = <<>>
    /\ last_op = NoOp

\* No AzureSearchIndex or AzureSearchIndexer exists: the state of the search
\* variables in the specifications that are not about the search service.
NoSearch ==
    /\ _search_dimension = None
    /\ embed_len = <<>>
    /\ index_requests = <<>>
    /\ indexer_requests = <<>>
    /\ skillset_requests = <<>>
    /\ search_calls = <<>>

(* ------------------------ get_document_loader ------------------------- *)

\* The strategy names get_document_loader is called with.
Strategies == {"layout", "read", "web", "docx", "json", "csv",
               "LAYOUT", "Json", "csv ", "pdf", ""}

\* The factory without its last elif: "csv" falls through to the raise.
LoaderClassNoCsv(s) ==
    IF s = "layout" THEN "LayoutDocumentLoading"
    ELSE IF s = "read" THEN "ReadDocumentLoading"
    ELSE IF s = "web" THEN "WebDocumentLoading"
    ELSE IF s = "docx" THEN "WordDocumentLoading"
    ELSE IF s = "json" THEN "JsonDocumentLoading"
    ELSE ""

\* The if/elif chain of get_document_loader over LoadingStrategy's values:
\* the class it instantiates, "" where it reaches the raise.
LoaderClass(s) ==
    IF s = "layout" THEN "LayoutDocumentLoading"
    ELSE IF s = "read" THEN "ReadDocumentLoading"
    ELSE IF s = "web" THEN "WebDocumentLoading"
    ELSE IF s = "docx" THEN "WordDocumentLoading"
    ELSE IF s = "json" THEN "JsonDocumentLoading"
    ELSE IF s = "csv" THEN "CsvDocumentLoading"
    ELSE ""

\* get_document_loader(loader_strategy). The JSON loader's constructor runs
\* JsonDocumentSettings() (the SettingsStep actions) before the loader exists.
get_document_loader(t, s) ==
    /\ pc[t] = "idle"
    /\ calls[t] < MaxLoaderCalls
    /\ loader_strategy' = [loader_strategy EXCEPT ![t] = s]
    /\ IF LoaderClass(s) = "JsonDocumentLoading"
       THEN /\ pc' = [pc EXCEPT ![t] = "acquire"]
            /\ UNCHANGED <<ret, calls, loaders>>
       ELSE IF LoaderClass(s) # ""
       THEN /\ loaders' = Append(loaders, LoaderClass(s))
            /\ ret' = [ret EXCEPT ![t] = [kind |-> "loader",
                                          type |-> LoaderClass(s),
                                          id |-> Len(loaders) + 1,
                                          settings |-> None]]
            /\ calls' = [calls EXCEPT ![t] = @ + 1]
            /\ UNCHANGED pc
       ELSE /\ ret' = [ret EXCEPT ![t] = [kind |-> "raise",
                                          type |-> "Exception",
                                          id |-> 0,
                                          settings |-> None]]
            /\ calls' = [calls EXCEPT ![t] = @ + 1]
            /\ UNCHANGED <<pc, loaders>>
    /\ UNCHANGED <<_instance, _lock, heap, instance, clears, returned>>
    /\ UNCHANGED <<ioVars, docVars, searchVars>>

(* -------------------------- CsvDocumentLoading ------------------------ *)

\* CsvDocumentLoading._csv_args["fieldnames"]
fieldnames == <<"primary_investigator", "program_manager", "institution",
                "cluster", "abstract", "proposal_body">>

\* The lines of a CSV file: an empty line, a header line (the column names,
\* only ever the first line of a file) or a record with one value per column.
LineKinds == {"blank", "header", "record"}

CsvFiles ==
    {f \in UNION {[1..n -> LineKinds] : n \in 0..MaxRows} :
        \A i \in DOMAIN f : f[i] = "header" => i = 1}

FilePaths == {"data/proposals.csv", "data/more.csv"}

RECURSIVE NonBlank(_)
\* csv.DictReader skips the rows that are empty
NonBlank(lines) ==
    IF lines = <<>> THEN <<>>
    ELSE IF Head(lines) = "blank" THEN NonBlank(Tail(lines))
    ELSE <<Head(lines)>> \o NonBlank(Tail(lines))

\* csv.DictReader as CSVLoader uses it, given the field names of csv_args:
\* with no field names it takes them from the first non-empty row, which is
\* then no row of the result; with field names every non-empty row is one.
DictReader(lines, names) ==
    IF names = <<>> /\ NonBlank(lines) # <<>>
    THEN Tail(NonBlank(lines))
    ELSE NonBlank(lines)

\* A loader configured with no field names.
CsvRowsNoFieldnames(lines) == DictReader(lines, <<>>)

\* The rows CSVLoader reads with self._csv_args
CsvRows(lines) == DictReader(lines, fieldnames)

\* CsvDocumentLoading._load_csv: CSVLoader(document_url, csv_args).load()
\* makes one Document per row, its metadata naming the file and the row.
_load_csv(url, lines) ==
    [i \in 1..Len(CsvRows(lines)) |->
        [page_content |-> <<CsvRows(lines)[i], i>>,
         metadata |-> [source |-> url, row |-> i - 1]]]

\* CsvDocumentLoading.load
CsvDocumentLoading_load ==
    /\ load_pc = "csv"
    /\ source_documents' =
           [i \in 1..Len(_load_csv(document_url, csv_file)) |->
               [content |-> _load_csv(document_url, csv_file)[i].page_content,
                source |-> _load_csv(document_url, csv_file)[i].metadata.source]]
    /\ load_pc' = "done"
    /\ UNCHANGED <<document_url, raised, csv_file, data, return_dict, writes>>
    /\ UNCHANGED <<settingsVars, docVars, searchVars>>

InitCsv ==
    /\ InitSettings
    /\ document_url \in FilePaths
    /\ csv_file \in CsvFiles
    /\ load_pc = "csv"
    /\ source_documents = <<>>
    /\ raised = NoException
    /\ data = PyNone
    /\ return_dict = [content |-> <<>>, metadata |-> <<>>]
    /\ writes = {}
    /\ NoDocs
    /\ NoSearch

(* -------------------------- JsonDocumentLoading ----------------------- *)

\* JsonDocumentSettings.KeyType
KeyType == {"CLUSTER", "CONTENT", "CONTENT_PUBLICATIONS", "SUMMARY",
            "PROGRAM_MANAGER", "PUBLICATIONS"}

_cluster_keys == <<"name", "description", "research_questions",
                   "research_approach", "key_takeaways", "research_trends",
                   "executive_summary">>

_cluster_metadata_keys == <<"document_type", "afmr_url">>

_content_keys == <<"topic", "abstract", "Impact", "Benchmark", "Outcomes",
                   "Approach", "Novelty", "Task", "Challenges", "publications">>

_content_publications_keys == <<"topic", "research_questions", "executive_summary">>

_content_metadata_keys == <<"proposal_id", "program_manager",
                            "primary_investigator", "institution", "cluster",
                            "source_url", "publications">>

_content_publications_metadata_keys == <<"publication_url", "publication_id",
                                         "authors", "publication_date">>

_summary_keys == <<"abstract", "summary", "program_managers", "goals",
                   "research_questions", "research_approach", "key_takeaways",
                   "research_trends">>

_summary_metadata_keys == <<"abbreviations", "afmr_short_url", "afmr_url",
                            "afmr_github_url", "project_program_manager_count",
                            "project_cluster_count", "project_proposal_count",
                            "project_primary_investigator_count",
                            "project_institution_count">>

_program_manager_keys == <<"full_name", "email">>

_program_manager_metadata_keys == <<"institution_count", "clusters",
                                    "proposal_count", "primary_investigator_count">>

_publications_keys == <<"topic", "summary", "research_questions",
                        "research_approach", "research_takeaways",
                        "research_conclusion", "executive_summary">>

_publications_metadata_keys == <<"source_url", "authors", "publication_date">>

\* JsonDocumentSettings._key_fields
_key_fields == [ty \in KeyType |->
    CASE ty = "CLUSTER" -> _cluster_keys
      [] ty = "CONTENT" -> _content_keys
      [] ty = "CONTENT_PUBLICATIONS" -> _content_publications_keys
      [] ty = "SUMMARY" -> _summary_keys
      [] ty = "PROGRAM_MANAGER" -> _program_manager_keys
      [] ty = "PUBLICATIONS" -> _publications_keys]

\* JsonDocumentSettings._metadata_key_fields
_metadata_key_fields == [ty \in KeyType |->
    CASE ty = "CLUSTER" -> _cluster_metadata_keys
      [] ty = "CONTENT" -> _content_metadata_keys
      [] ty = "CONTENT_PUBLICATIONS" -> _content_publications_metadata_keys
      [] ty = "SUMMARY" -> _summary_metadata_keys
      [] ty = "PROGRAM_MANAGER" -> _program_manager_metadata_keys
      [] ty = "PUBLICATIONS" -> _publications_metadata_keys]

\* JsonDocumentSettings.get_key_fields
get_key_fields(field_type) == _key_fields[field_type]

\* JsonDocumentSettings.get_metadata_key_fields
get_metadata_key_fields(field_type) == _metadata_key_fields[field_type]

\* A document URL is the sequence of its parts; `x in url` holds of a part x.
Contains(url, part) == \E i \in DOMAIN url : url[i] = part

\* A type test that looks for _pub.json ahead of _cluster_info.json.
_get_json_document_type_pub_first(url) ==
    IF Contains(url, "_pub.json") THEN "PUBLICATIONS"
    ELSE IF Contains(url, "_cluster_info.json") THEN "CLUSTER"
    ELSE IF Contains(url, "afmr_summary2.json") THEN "SUMMARY"
    ELSE IF Contains(url, "_pm.json") THEN "PROGRAM_MANAGER"
    ELSE "CONTENT"

\* JsonDocumentLoading._get_json_document_type
_get_json_document_type(url) ==
    IF Contains(url, "_cluster_info.json") THEN "CLUSTER"
    ELSE IF Contains(url, "afmr_summary2.json") THEN "SUMMARY"
    ELSE IF Contains(url, "_pm.json") THEN "PROGRAM_MANAGER"
    ELSE IF Contains(url, "_pub.json") THEN "PUBLICATIONS"
    ELSE "CONTENT"

\* The settings object of the loader that runs load: self.settings
self_settings == ret[MainThread].settings

\* self.settings.get_strict_keys()
strict == get_strict_keys(self_settings)

\* A lookup that never yields None: dict.get(k, "") on any value.
GetOrEmpty(d, k) ==
    IF d.kind = "dict" /\ k \in DOMAIN d.fields /\ d.fields[k] # PyNone
    THEN d.fields[k] ELSE PyStr

\* dict.get(k): the value under k, None when the dictionary has no such key.
\* On a value that is no dictionary the attribute get does not exist.
Get(d, k) == IF k \in DOMAIN d.fields THEN d.fields[k] ELSE PyNone

\* The assignment that is skipped for a value of None.
StoreValueUnlessNone(d, k, value) ==
    IF value = PyNone THEN d
    ELSE [x \in DOMAIN d \cup {k} |-> IF x = k THEN value ELSE d[x]]

\* d[k] = value
StoreValue(d, k, value) ==
    [x \in DOMAIN d \cup {k} |-> IF x = k THEN value ELSE d[x]]

\* ValueError(f"JSON file at path {self.document_url} must contain the field '{k}'")
MissingField(k) ==
    [type |-> "ValueError", msg |-> "must contain the field", field |-> k]

RECURSIVE PublicationDict(_, _, _, _)
\* The inner loop of _get_content_publications over the keys of one
\* publication: [exc, value], value the publication_dict built so far.
PublicationDict(publication, keys, strictKeys, acc) ==
    IF keys = <<>> THEN [exc |-> NoException, value |-> acc]
    ELSE IF publication.kind # "dict"
    THEN [exc |-> Exception("AttributeError", "get"), value |-> acc]
    ELSE LET k == Head(keys)
             value == Get(publication, k)
         IN  IF value = PyNone /\ strictKeys
             THEN [exc |-> MissingField(k), value |-> acc]
             ELSE PublicationDict(publication, Tail(keys), strictKeys,
                                  StoreValue(acc, k, value))

RECURSIVE PublicationData(_, _, _, _)
\* The outer loop of _get_content_publications over the publications:
\* [exc, value], value the list publication_data built so far.
PublicationData(pubs, keys, strictKeys, acc) ==
    IF pubs = <<>> THEN [exc |-> NoException, value |-> acc]
    ELSE LET r == PublicationDict(Head(pubs), keys, strictKeys, <<>>)
         IN  IF r.exc # NoException THEN [exc |-> r.exc, value |-> acc]
             ELSE PublicationData(Tail(pubs), keys, strictKeys,
                                  Append(acc, PyDict(r.value)))

\* What `for publication in publications` iterates over: the items of a
\* list, the keys of a dictionary, the characters of a string.
IterItems(v) ==
    IF v.kind = "list" THEN v.items
    ELSE IF v.kind = "dict"
    THEN [i \in 1..Cardinality(DOMAIN v.fields) |-> PyStr]
    ELSE <<PyStr>>

\* A helper that stores the payload's publications value as it is.
_get_content_publications_as_is(data_dict, strictKeys) ==
    [exc |-> NoException, value |-> Get(data_dict, "publications")]

\* JsonDocumentLoading._get_content_publications: [exc, value], value what
\* it assigns to return_dict["content"]["publications"].
_get_content_publications(data_dict, strictKeys) ==
    LET publications == Get(data_dict, "publications")
    IN  IF publications = PyList(<<>>)
        THEN [exc |-> NoException, value |-> PyList(<<>>)]
        ELSE IF publications = PyNone /\ strictKeys
        THEN [exc |-> MissingField("publications"), value |-> PyNone]
        ELSE IF publications.kind \in {"None", "int"}
        THEN [exc |-> Exception("TypeError", "not iterable"), value |-> PyNone]
        ELSE LET r == PublicationData(IterItems(publications),
                          get_key_fields("CONTENT_PUBLICATIONS"), strictKeys, <<>>)
             IN  [exc |-> r.exc, value |-> PyList(r.value)]

RECURSIVE LoadKeys(_, _, _, _, _, _)
\* One of the two loops of _load_schema_from_dict: over the content keys
\* with target "content" (lines 261-270), over the metadata keys with target
\* "metadata" (lines 272-281). In both the key "publications" is handed to
\* _get_content_publications, which assigns to return_dict["content"].
\* [exc, rd, log]: rd the return_dict so far, log the assignments made.
LoadKeys(keys, target, data_dict, strictKeys, rd, log) ==
    IF keys = <<>> THEN [exc |-> NoException, rd |-> rd, log |-> log]
    ELSE IF data_dict.kind # "dict"
    THEN [exc |-> Exception("AttributeError", "get"), rd |-> rd, log |-> log]
    ELSE LET k == Head(keys)
         IN  IF k = "publications"
             THEN LET r == _get_content_publications(data_dict, strictKeys)
                  IN  IF r.exc # NoException
                      THEN [exc |-> r.exc, rd |-> rd, log |-> log]
                      ELSE LoadKeys(Tail(keys), target, data_dict, strictKeys,
                               [rd EXCEPT !.content = StoreValue(@, k, r.value)],
                               log \cup {[loop |-> target, dict |-> "content", key |-> k]})
             ELSE LET value == Get(data_dict, k)
                  IN  IF value = PyNone /\ strictKeys
                      THEN [exc |-> MissingField(k), rd |-> rd, log |-> log]
                      ELSE LoadKeys(Tail(keys), target, data_dict, strictKeys,
                               [rd EXCEPT ![target] = StoreValue(@, k, value)],
                               log \cup {[loop |-> target, dict |-> target, key |-> k]})

\* ValueError(f"JSON file at path: {self.document_url} must be a dictionary.")
MustBeDict == Exception("ValueError", "must be a dictionary")

\* A type check that lets every payload through.
IsDictAlways(v) == TRUE

\* isinstance(data, dict)
IsDict(v) == v.kind = "dict"

\* JsonDocumentLoading.load up to the type check of _load_json (line 291);
\* a dictionary goes on to _load_schema_from_dict, which starts with an empty
\* return_dict.
load_json_check ==
    /\ load_pc = "json"
    /\ IF ~IsDict(data)
       THEN /\ raised' = MustBeDict
            /\ load_pc' = "done"
       ELSE /\ load_pc' = "content"
            /\ UNCHANGED raised
    /\ UNCHANGED <<document_url, source_documents, csv_file, data, return_dict, writes>>
    /\ UNCHANGED <<settingsVars, docVars, searchVars>>

\* _load_schema_from_dict, lines 257-270: the loop over the content keys
load_content_keys ==
    /\ load_pc = "content"
    /\ LET r == LoadKeys(get_key_fields(_get_json_document_type(document_url)),
                         "content", data, strict, return_dict, writes)
       IN  /\ return_dict' = r.rd
           /\ writes' = r.log
           /\ raised' = r.exc
           /\ load_pc' = IF r.exc = NoException THEN "metadata" ELSE "done"
    /\ UNCHANGED <<document_url, source_documents, csv_file, data>>
    /\ UNCHANGED <<settingsVars, docVars, searchVars>>

\* _load_schema_from_dict, lines 272-282: the loop over the metadata keys
load_metadata_keys ==
    /\ load_pc = "metadata"
    /\ LET r == LoadKeys(get_metadata_key_fields(_get_json_document_type(document_url)),
                         "metadata", data, strict, return_dict, writes)
       IN  /\ return_dict' = r.rd
           /\ writes' = r.log
           /\ raised' = r.exc
           /\ load_pc' = IF r.exc = NoException THEN "wrap" ELSE "done"
    /\ UNCHANGED <<document_url, source_documents, csv_file, data>>
    /\ UNCHANGED <<settingsVars, docVars, searchVars>>

\* _load_json, lines 299-302, and the rest of load: the one Document, whose
\* page_content is str(data_dict), becomes one SourceDocument.
load_return ==
    /\ load_pc = "wrap"
    /\ source_documents' = <<[content |-> return_dict, source |-> document_url]>>
    /\ load_pc' = "done"
    /\ UNCHANGED <<document_url, raised, csv_file, data, return_dict, writes>>
    /\ UNCHANGED <<settingsVars, docVars, searchVars>>

\* The document URLs load is called with, one of each document type and one
\* that names two of them.
JsonUrls == {<<"https://host/data/", "c1", "_cluster_info.json">>,
             <<"https://host/data/", "afmr_summary2.json">>,
             <<"https://host/data/", "jane", "_pm.json">>,
             <<"https://host/data/", "p9", "_pub.json">>,
             <<"https://host/data/", "proposal_17", ".json">>,
             <<"https://host/", "p9", "_pub.json", "/", "c1", "_cluster_info.json">>}

\* The fields of one entry of a payload's publications list.
PublicationFields ==
    Range(_content_publications_keys) \cup Range(_content_publications_metadata_keys)

\* Entries of a publications list: a complete one, one without a content
\* field, one without a metadata field, and one that is no dictionary.
PubEntries ==
    {PyDict([k \in PublicationFields |-> PyStr]),
     PyDict([k \in PublicationFields \ {"research_questions"} |-> PyStr]),
     PyDict([k \in PublicationFields \ {"authors"} |-> PyStr]),
     PyStr}

\* Values of a payload's publications field.
PubValues ==
    {PyNone, PyNum, PyStr, PyDict(<<>>), PyList(<<>>)}
    \cup {PyList(l) : l \in UNION {[1..n -> PubEntries] : n \in 1..MaxPubs}}

\* The fields a payload written for document type ty has: the type's content
\* and metadata fields and one the schema does not know.
SchemaFields(ty) ==
    Range(_key_fields[ty]) \cup Range(_metadata_key_fields[ty]) \cup {"body"}

RECURSIVE SubsetsUpTo(_, _)
\* the subsets of S with at most n elements
SubsetsUpTo(S, n) ==
    IF n = 0 THEN {{}}
    ELSE SubsetsUpTo(S, n - 1)
         \cup {a \cup {x} : a \in SubsetsUpTo(S, n - 1), x \in S}

\* Dictionary payloads: a payload written for some document type, with up to
\* MaxAbsent of its fields left out.
DictPayloads ==
    UNION {
        {PyDict([k \in SchemaFields(ty) \ absent |->
                    IF k = "publications" THEN pubs ELSE PyStr]) :
            absent \in SubsetsUpTo(SchemaFields(ty), MaxAbsent),
            pubs \in PubValues}
        : ty \in KeyType \ {"CONTENT_PUBLICATIONS"}}

\* Payloads whose top level is no dictionary.
OtherPayloads == {PyNone, PyStr, PyNum, [kind |-> "bool"],
                  PyList(<<>>), PyList(<<PyDict(<<>>)>>)}

\* A JsonDocumentLoading object exists (its construction has run
\* JsonDocumentSettings() once) and load(document_url) is called. The
\* settings object's _strict_keys is drawn from both values: __init__ only
\* ever assigns False, and the attribute is assignable by a caller, which is
\* how the strict branches of the loader are entered at all.
InitJson ==
    /\ _instance = 1
    /\ _lock = None
    /\ \E b \in BOOLEAN : heap = <<[inits |-> 2, _strict_keys |-> b]>>
    /\ pc = [t \in Threads |-> "idle"]
    /\ instance = [t \in Threads |-> IF t = MainThread THEN 1 ELSE None]
    /\ ret = [t \in Threads |->
                IF t = MainThread
                THEN [kind |-> "loader", type |-> "JsonDocumentLoading",
                      id |-> 1, settings |-> 1]
                ELSE NoResult]
    /\ calls = [t \in Threads |-> IF t = MainThread THEN 1 ELSE 0]
    /\ clears = 0
    /\ loader_strategy = [t \in Threads |-> IF t = MainThread THEN "json" ELSE ""]
    /\ loaders = <<"JsonDocumentLoading">>
    /\ returned = {1}
    /\ document_url \in JsonUrls
    /\ data \in DictPayloads \cup OtherPayloads
    /\ load_pc = "json"
    /\ source_documents = <<>>
    /\ raised = NoException
    /\ csv_file = <<>>
    /\ return_dict = [content |-> <<>>, metadata |-> <<>>]
    /\ writes = {}
    /\ NoDocs
    /\ NoSearch

(* ---------------- SourceDocument, SourceDocumentEnhanced --------------- *)

\* documents on the heap before no further one is constructed
MaxDocs == 2

\* A str with its value, the sequence of its parts; + is \o on the parts.
PyS(s) == [kind |-> "str", s |-> s]

\* An int with its value.
PyInt(n) == [kind |-> "int", n |-> n]

\* A bool with its value.
PyBool(b) == [kind |-> "bool", b |-> b]

\* A tuple with its items.
PyTuple(items) == [kind |-> "tuple", items |-> items]

\* A reference to the object with id n.
PyRef(n) == [kind |-> "object", id |-> n]

\* The outcome of a call that raised exception e instead of returning.
PyRaise(e) == [kind |-> "raise", exc |-> e]

\* The parameters of SourceDocument.__init__ after self, which are the
\* attributes it sets: the base fields.
BaseFields == <<"content", "source", "id", "title", "chunk", "offset",
                "page_number", "chunk_id">>

\* SourceDocument(content, source, id, title, chunk, offset, page_number,
\* chunk_id): an object of the base class, with the base fields and the
\* researcher_metadata attribute that StructuredDocumentChunking.chunk reads.
SourceDocument(a) ==
    [class |-> "SourceDocument",
     content |-> a[1], source |-> a[2], id |-> a[3], title |-> a[4],
     chunk |-> a[5], offset |-> a[6], page_number |-> a[7], chunk_id |-> a[8],
     researcher_metadata |-> PyNone]

\* SourceDocumentEnhanced.__init__: super().__init__ sets the base fields
\* from the first eight arguments a, then self.enhanced_metadata is assigned.
SourceDocumentEnhanced(a, enhanced_metadata) ==
    [class |-> "SourceDocumentEnhanced",
     content |-> a[1], source |-> a[2], id |-> a[3], title |-> a[4],
     chunk |-> a[5], offset |-> a[6], page_number |-> a[7], chunk_id |-> a[8],
     enhanced_metadata |-> enhanced_metadata]

\* hasattr(obj, name)
HasAttr(obj, name) == name \in DOMAIN obj

\* the base fields of a document, in the order of BaseFields
BaseArgs(d) == [i \in DOMAIN BaseFields |-> d[BaseFields[i]]]

\* isinstance(x, cls) for x of class c: the class itself, or the base class
\* of SourceDocumentEnhanced.
IsInstance(c, cls) ==
    \/ c = cls
    \/ (c = "SourceDocumentEnhanced" /\ cls = "SourceDocument")

\* SourceDocument.__eq__, the comparison of the base fields
SourceDocument_eq(self, other) ==
    \A i \in DOMAIN BaseFields : self[BaseFields[i]] = other[BaseFields[i]]

\* An __eq__ that leaves the metadata mapping out of the comparison.
SourceDocumentEnhanced_eq_base_only(self, other) ==
    IF IsInstance(self.class, other.class)
    THEN PyBool(SourceDocument_eq(self, other))
    ELSE PyBool(FALSE)

\* SourceDocumentEnhanced.__eq__: `and` evaluates its right operand only when
\* the left one is true, and the right one reads other.enhanced_metadata.
SourceDocumentEnhanced_eq(self, other) ==
    IF IsInstance(self.class, other.class)
    THEN IF ~SourceDocument_eq(self, other) THEN PyBool(FALSE)
         ELSE IF ~HasAttr(other, "enhanced_metadata")
         THEN PyRaise(Exception("AttributeError", "enhanced_metadata"))
         ELSE PyBool(self.enhanced_metadata = other.enhanced_metadata)
    ELSE PyBool(FALSE)

\* A constructor that hands out the object created last instead of a new one.
NewInPlace(h, d) == IF h = <<>> THEN <<d>> ELSE [h EXCEPT ![Len(h)] = d]

\* cls(...): a new object, which __init__ fills in; no other object changes.
New(h, d) == Append(h, d)

\* The argument values documents are constructed from: one full set of
\* values, and for each field the sets that differ from it in that field.
BaseValues == <<PyS(<<"a", "b">>), PyS(<<"https", "://", "host", "/", "doc.txt">>),
                PyS(<<"doc_1">>), PyS(<<"doc.txt">>), PyInt(0), PyInt(0),
                PyInt(1), PyS(<<"c0">>)>>

OtherValues == <<PyS(<<"a">>), PyS(<<"https", "://", "host", "/", "other.txt">>),
                 PyNone, PyS(<<"other.txt">>), PyInt(1), PyNone,
                 PyNone, PyS(<<"c1">>)>>

BaseInputs ==
    {BaseValues}
    \cup {[BaseValues EXCEPT ![i] = OtherValues[i]] : i \in DOMAIN BaseValues}

MetadataInputs ==
    {PyNone, PyDict(<<>>), PyDict([author |-> PyS(<<"x">>)]),
     PyDict([author |-> PyS(<<"y">>)]),
     PyDict([author |-> PyList(<<PyS(<<"x">>), PyInt(1), PyBool(TRUE), PyNone>>)]),
     PyDict([author |-> PyTuple(<<PyS(<<"x">>), PyInt(1)>>)])}

\* (base fields, enhanced_metadata) pairs that differ from the first pair
\* in at most one place
DocInputs ==
    {<<a, PyDict([author |-> PyS(<<"x">>)])>> : a \in BaseInputs}
    \cup {<<BaseValues, m>> : m \in MetadataInputs}

\* the ids of the documents of class cls
DocsOf(cls) == {i \in DOMAIN docs : docs[i].class = cls}

\* SourceDocumentEnhanced(...) called with explicit arguments
SourceDocumentEnhanced_init ==
    /\ Len(docs) < MaxDocs
    /\ \E in \in DocInputs :
          /\ docs' = New(docs, SourceDocumentEnhanced(in[1], in[2]))
          /\ last_op' = [op |-> "__init__", args |-> <<>>,
                         result |-> PyRef(Len(docs) + 1)]
    /\ UNCHANGED <<settingsVars, ioVars, searchVars>>

\* What a loader's load does with each Document it read (json_document.py
\* lines 176-182, csv_document.py lines 24-30):
\* SourceDocument(content=document.page_content, source=self.document_url)
load_SourceDocument ==
    /\ Len(docs) < MaxDocs
    /\ \E in \in BaseInputs :
          /\ docs' = New(docs, SourceDocument(
                        <<in[1], in[2], PyNone, PyNone, PyNone, PyNone,
                          PyNone, PyNone>>))
          /\ last_op' = [op |-> "load", args |-> <<>>,
                         result |-> PyRef(Len(docs) + 1)]
    /\ UNCHANGED <<settingsVars, ioVars, searchVars>>

\* SourceDocumentEnhanced.FromSourceDocument(docs[i]): enhanced_metadata is
\* left at its default, None.
FromSourceDocument(i) ==
    /\ Len(docs) < MaxDocs
    /\ docs' = New(docs, SourceDocumentEnhanced(BaseArgs(docs[i]), PyNone))
    /\ last_op' = [op |-> "FromSourceDocument", args |-> <<i>>,
                   result |-> PyRef(Len(docs) + 1)]
    /\ UNCHANGED <<settingsVars, ioVars, searchVars>>

\* SourceDocumentEnhanced.ToSourceDocument(docs[i])
ToSourceDocument(i) ==
    /\ Len(docs) < MaxDocs
    /\ docs' = New(docs, SourceDocument(BaseArgs(docs[i])))
    /\ last_op' = [op |-> "ToSourceDocument", args |-> <<i>>,
                   result |-> PyRef(Len(docs) + 1)]
    /\ UNCHANGED <<settingsVars, ioVars, searchVars>>

\* docs[i] == docs[j], with docs[i] a SourceDocumentEnhanced whose __eq__ runs
SourceDocumentEnhanced___eq__(i, j) ==
    /\ docs[i].class = "SourceDocumentEnhanced"
    /\ last_op' = [op |-> "__eq__", args |-> <<i, j>>,
                   result |-> SourceDocumentEnhanced_eq(docs[i], docs[j])]
    /\ UNCHANGED docs
    /\ UNCHANGED <<settingsVars, ioVars, searchVars>>

\* docs[i] == docs[j], with docs[i] a plain SourceDocument and docs[j] a
\* SourceDocumentEnhanced: the class of the right operand is a subclass of
\* the class of the left one and defines __eq__, so the right operand's
\* __eq__ runs first, with the left operand as its argument, and what it
\* returns or raises is the outcome.
SourceDocumentEnhanced___eq___reflected(i, j) ==
    /\ docs[i].class = "SourceDocument"
    /\ docs[j].class = "SourceDocumentEnhanced"
    /\ last_op' = [op |-> "__eq__ reflected", args |-> <<i, j>>,
                   result |-> SourceDocumentEnhanced_eq(docs[j], docs[i])]
    /\ UNCHANGED docs
    /\ UNCHANGED <<settingsVars, ioVars, searchVars>>

\* str(docs[i]) for a SourceDocumentEnhanced: the f-string of __str__ and the
\* attributes it formats (content is not among them).
SourceDocumentEnhanced___str__(i) ==
    /\ docs[i].class = "SourceDocumentEnhanced"
    /\ last_op' = [op |-> "__str__", args |-> <<i>>,
                   result |-> [kind |-> "str",
                               s |-> <<"SourceDocumentEnhanced(...)">>,
                               format_of |-> <<docs[i].id, docs[i].title,
                                   docs[i].source, docs[i].chunk,
                                   docs[i].offset, docs[i].page_number,
                                   docs[i].chunk_id,
                                   docs[i].enhanced_metadata>>]]
    /\ UNCHANGED docs
    /\ UNCHANGED <<settingsVars, ioVars, searchVars>>

RECURSIVE JsonDumps(_)
\* json.dumps: the JSON text of a value as the tree of its JSON values; a
\* tuple is written as an array, like a list
JsonDumps(v) ==
    IF v.kind = "None" THEN [json |-> "null"]
    ELSE IF v.kind = "str" THEN [json |-> "string", s |-> v.s]
    ELSE IF v.kind = "int" THEN [json |-> "number", n |-> v.n]
    ELSE IF v.kind = "bool" THEN [json |-> "boolean", b |-> v.b]
    ELSE IF v.kind \in {"list", "tuple"}
    THEN [json |-> "array",
          items |-> [i \in DOMAIN v.items |-> JsonDumps(v.items[i])]]
    ELSE [json |-> "object",
          members |-> [k \in DOMAIN v.fields |-> JsonDumps(v.fields[k])]]

RECURSIVE JsonLoads(_)
\* json.JSONDecoder.decode: the value a JSON text stands for
JsonLoads(j) ==
    IF j.json = "null" THEN PyNone
    ELSE IF j.json = "string" THEN PyS(j.s)
    ELSE IF j.json = "number" THEN PyInt(j.n)
    ELSE IF j.json = "boolean" THEN PyBool(j.b)
    ELSE IF j.json = "array"
    THEN PyList([i \in DOMAIN j.items |-> JsonLoads(j.items[i])])
    ELSE PyDict([k \in DOMAIN j.members |-> JsonLoads(j.members[k])])

\* SourceDocumentEnhancedEncoder.default for a SourceDocumentEnhanced
SourceDocumentEnhancedEncoder_default(obj) ==
    PyDict([id |-> obj.id, content |-> obj.content, source |-> obj.source,
            title |-> obj.title, chunk |-> obj.chunk, offset |-> obj.offset,
            page_number |-> obj.page_number, chunk_id |-> obj.chunk_id,
            enhanced_metadata |-> obj.enhanced_metadata])

\* The constructor call that from_dict and SourceDocumentEnhancedDecoder.decode
\* make from a dictionary's nine entries.
FromEntries(o) ==
    SourceDocumentEnhanced(
        <<o.fields["content"], o.fields["source"], o.fields["id"],
          o.fields["title"], o.fields["chunk"], o.fields["offset"],
          o.fields["page_number"], o.fields["chunk_id"]>>,
        o.fields["enhanced_metadata"])

\* A decoder that builds the document without its enhanced_metadata.
SourceDocumentEnhancedDecoder_decode_base(j) ==
    [FromEntries(JsonLoads(j)) EXCEPT !.enhanced_metadata = PyNone]

\* SourceDocumentEnhancedDecoder.decode
SourceDocumentEnhancedDecoder_decode(j) == FromEntries(JsonLoads(j))

\* docs[i].to_json() for a SourceDocumentEnhanced
to_json(i) ==
    /\ docs[i].class = "SourceDocumentEnhanced"
    /\ last_op' = [op |-> "to_json", args |-> <<i>>,
                   result |-> [kind |-> "str",
                               text |-> JsonDumps(
                                   SourceDocumentEnhancedEncoder_default(docs[i]))]]
    /\ UNCHANGED docs
    /\ UNCHANGED <<settingsVars, ioVars, searchVars>>

\* SourceDocumentEnhanced.from_json(json_string), json_string the text the
\* last to_json returned
from_json ==
    /\ Len(docs) < MaxDocs
    /\ last_op.op = "to_json"
    /\ docs' = New(docs, SourceDocumentEnhancedDecoder_decode(last_op.result.text))
    /\ last_op' = [op |-> "from_json", args |-> last_op.args,
                   result |-> PyRef(Len(docs) + 1)]
    /\ UNCHANGED <<settingsVars, ioVars, searchVars>>

\* the dictionaries from_dict is called with
DictInputs ==
    {SourceDocumentEnhancedEncoder_default(SourceDocumentEnhanced(in[1], in[2])) :
        in \in DocInputs}

\* SourceDocumentEnhanced.from_dict(dict_obj)
from_dict ==
    /\ Len(docs) < MaxDocs
    /\ \E dict_obj \in DictInputs :
          /\ docs' = New(docs, FromEntries(dict_obj))
          /\ last_op' = [op |-> "from_dict", args |-> <<>>,
                         result |-> PyRef(Len(docs) + 1)]
    /\ UNCHANGED <<settingsVars, ioVars, searchVars>>

InitDocs == InitSettings /\ NoLoad /\ NoDocs /\ NoSearch

NextDocs ==
    \/ SourceDocumentEnhanced_init
    \/ load_SourceDocument
    \/ \E i \in DOMAIN docs : FromSourceDocument(i)
    \/ \E i \in DOMAIN docs : ToSourceDocument(i)
    \/ \E i, j \in DOMAIN docs : SourceDocumentEnhanced___eq__(i, j)
    \/ \E i, j \in DOMAIN docs : SourceDocumentEnhanced___eq___reflected(i, j)
    \/ \E i \in DOMAIN docs : SourceDocumentEnhanced___str__(i)
    \/ \E i \in DOMAIN docs : to_json(i)
    \/ from_json
    \/ from_dict

SpecDocs == InitDocs /\ [][NextDocs]_vars

(* ------------------ SourceDocumentEnhanced.from_metadata -------------- *)

\* keys of a metadata mapping besides the reserved ones that it may hold
MaxMetaKeys == 2

\* The least index i >= from with seq[i] in marks, Len(seq) + 1 if none.
FirstIdx(seq, marks, from) ==
    IF \E i \in from..Len(seq) : seq[i] \in marks
    THEN CHOOSE i \in from..Len(seq) :
            /\ seq[i] \in marks
            /\ \A j \in from..(i - 1) : seq[j] \notin marks
    ELSE Len(seq) + 1

\* urlparse with the query string left in the path.
urlparse_query_in_path(u) ==
    LET hasScheme == Len(u) >= 2 /\ u[2] = "://"
        afterScheme == IF hasScheme THEN 3 ELSE 1
        pathStart == IF hasScheme
                     THEN FirstIdx(u, {"/", "?", "#"}, afterScheme)
                     ELSE afterScheme
        fragMark == FirstIdx(u, {"#"}, pathStart)
    IN  [scheme |-> IF hasScheme THEN <<u[1]>> ELSE <<>>,
         netloc |-> SubSeq(u, afterScheme, pathStart - 1),
         path |-> SubSeq(u, pathStart, fragMark - 1),
         query |-> <<>>,
         fragment |-> SubSeq(u, fragMark + 1, Len(u))]

\* urllib.parse.urlparse of a str, the str being the sequence of its parts
\* with the delimiters "://", "/", "?" and "#" parts of their own:
\* scheme://netloc/path?query#fragment, every component optional.
urlparse(u) ==
    LET hasScheme == Len(u) >= 2 /\ u[2] = "://"
        afterScheme == IF hasScheme THEN 3 ELSE 1
        pathStart == IF hasScheme
                     THEN FirstIdx(u, {"/", "?", "#"}, afterScheme)
                     ELSE afterScheme
        queryMark == FirstIdx(u, {"?", "#"}, pathStart)
        fragMark == FirstIdx(u, {"#"}, pathStart)
    IN  [scheme |-> IF hasScheme THEN <<u[1]>> ELSE <<>>,
         netloc |-> SubSeq(u, afterScheme, pathStart - 1),
         path |-> SubSeq(u, pathStart, queryMark - 1),
         query |-> IF queryMark <= Len(u) /\ u[queryMark] = "?"
                   THEN SubSeq(u, queryMark + 1, fragMark - 1) ELSE <<>>,
         fragment |-> SubSeq(u, fragMark + 1, Len(u))]

\* str.endswith, on parts
EndsWith(str, suffix) ==
    /\ Len(str) >= Len(suffix)
    /\ SubSeq(str, Len(str) - Len(suffix) + 1, Len(str)) = suffix

\* f"{idx}" for an int or None
FormatIdx(idx) == IF idx.kind = "int" THEN <<ToString(idx.n)>> ELSE <<"None">>

\* f"doc_{hashlib.sha1(text.encode('utf-8')).hexdigest()}": the digest is
\* kept as the text it is the digest of.
HashKey(text) == [kind |-> "str", s |-> <<"doc_">>, sha1_of |-> text]

\* dict.get(k, default) on a dictionary
GetDefault(d, k, default) ==
    IF k \in DOMAIN d.fields THEN d.fields[k] ELSE default

\* the list of keys in the comprehension of line 110
ReservedKeys == <<"id", "content", "source", "title", "chunk", "offset",
                  "page_number", "chunk_id">>

\* A key list that leaves chunk_id out.
ExcludedKeysShort == <<"id", "content", "source", "title", "chunk", "offset",
                       "page_number">>

\* `k not in [...]` of line 110 is tested against this list
ExcludedKeys == ReservedKeys

\* {k: v for k, v in metadata.items() if k not in [...]}
Remainder(metadata) ==
    PyDict([k \in DOMAIN metadata.fields \ Range(ExcludedKeys) |->
               metadata.fields[k]])

\* SourceDocumentEnhanced.from_metadata(content, metadata, document_url, idx):
\* [exc, value], value the document built; url is the argument
\* document_url. urlparse(None) gives components
\* that are bytes, and bytes + "://" raises TypeError.
from_metadata(content, metadata, url, idx) ==
    IF url.kind # "str"
    THEN [exc |-> Exception("TypeError", "can't concat str to bytes"),
          value |-> PyNone]
    ELSE LET parsed_url == urlparse(url.s)
             file_url == parsed_url.scheme \o <<"://">> \o parsed_url.netloc
                         \o parsed_url.path
             filename == parsed_url.path
             hash_key == HashKey(file_url \o <<"_">> \o FormatIdx(idx))
             sas_placeholder ==
                 IF parsed_url.netloc # <<>>
                    /\ EndsWith(parsed_url.netloc, <<".blob.core.windows.net">>)
                 THEN <<"_SAS_TOKEN_PLACEHOLDER_">> ELSE <<>>
         IN  [exc |-> NoException,
              value |-> SourceDocumentEnhanced(
                  <<content,
                    GetDefault(metadata, "source", PyS(file_url \o sas_placeholder)),
                    GetDefault(metadata, "id", hash_key),
                    GetDefault(metadata, "title", PyS(filename)),
                    GetDefault(metadata, "chunk", idx),
                    GetDefault(metadata, "offset", PyNone),
                    GetDefault(metadata, "page_number", PyNone),
                    GetDefault(metadata, "chunk_id", PyNone)>>,
                  Remainder(metadata))]

\* the values of document_url
DocumentUrls ==
    {PyS(<<"https", "://", "acct", ".blob.core.windows.net", "/", "documents",
           "/", "doc.txt", "?", "sv=1", "#", "p2">>),
     PyS(<<"https", "://", "host", "/", "doc.txt">>),
     PyS(<<"data", "/", "doc.txt">>),
     PyNone}

\* keys a metadata mapping may hold that are not reserved
OpenKeys == {"author", "language", "year"}

\* the value metadata holds under key k: None under page_number, a str or an
\* int that no default is equal to under the other keys
MetaValue(k) ==
    IF k = "page_number" THEN PyNone
    ELSE IF k \in {"chunk", "offset"} THEN PyInt(7)
    ELSE PyS(<<"meta", k>>)

\* the values of metadata: any reserved keys, and up to MaxMetaKeys open ones
MetadataArgs ==
    {PyDict([k \in r \cup o |-> MetaValue(k)]) :
        r \in SUBSET Range(ReservedKeys), o \in SubsetsUpTo(OpenKeys, MaxMetaKeys)}

\* from_metadata is called with the arguments drawn: last_op.args
InitMeta ==
    /\ InitSettings /\ NoLoad /\ NoSearch
    /\ docs = <<>>
    /\ \E content \in {PyS(<<"a", "b">>)}, metadata \in MetadataArgs,
          url \in DocumentUrls, idx \in {PyInt(0), PyInt(3), PyNone} :
          last_op = [op |-> "call", args |-> <<content, metadata, url, idx>>,
                     result |-> PyNone]

\* SourceDocumentEnhanced.from_metadata(*last_op.args)
SourceDocumentEnhanced_from_metadata ==
    /\ last_op.op = "call"
    /\ LET r == from_metadata(last_op.args[1], last_op.args[2],
                              last_op.args[3], last_op.args[4])
       IN  IF r.exc = NoException
           THEN /\ docs' = New(docs, r.value)
                /\ last_op' = [last_op EXCEPT !.op = "from_metadata",
                                              !.result = PyRef(Len(docs) + 1)]
           ELSE /\ docs' = docs
                /\ last_op' = [last_op EXCEPT !.op = "from_metadata",
                                              !.result = PyRaise(r.exc)]
    /\ UNCHANGED <<settingsVars, ioVars, searchVars>>

NextMeta == SourceDocumentEnhanced_from_metadata

SpecMeta == InitMeta /\ [][NextMeta]_vars

(* ------------- several calls of from_metadata, for their ids ----------- *)

\* calls of from_metadata in one behaviour
MaxIdCalls == 2

\* the values of document_url of these calls: those of DocumentUrls and the
\* first of them without its query string and fragment, and with another
\* query string
IdUrls ==
    DocumentUrls \cup
    {PyS(<<"https", "://", "acct", ".blob.core.windows.net", "/", "documents",
           "/", "doc.txt">>),
     PyS(<<"https", "://", "acct", ".blob.core.windows.net", "/", "documents",
           "/", "doc.txt", "?", "sv=2">>)}

\* the argument tuples of these calls: metadata with and without an id
IdArgs ==
    {<<content, metadata, url, idx>> :
        content \in {PyS(<<"a", "b">>)},
        metadata \in {PyDict([k \in r |-> MetaValue(k)]) : r \in {{}, {"id"}}},
        url \in IdUrls,
        idx \in {PyInt(0), PyInt(3), PyNone}}

\* MaxIdCalls calls are to be made, with the arguments last_op.args[k] for
\* the k-th; last_op.result is the list of what the calls made so far returned
InitIds ==
    /\ InitSettings /\ NoLoad /\ NoSearch
    /\ docs = <<>>
    /\ \E args \in [1..MaxIdCalls -> IdArgs] :
          last_op = [op |-> "calls", args |-> args, result |-> PyList(<<>>)]

\* the next SourceDocumentEnhanced.from_metadata(*last_op.args[k])
SourceDocumentEnhanced_from_metadata_next ==
    /\ last_op.op = "calls"
    /\ Len(last_op.result.items) < Len(last_op.args)
    /\ LET a == last_op.args[Len(last_op.result.items) + 1]
           r == from_metadata(a[1], a[2], a[3], a[4])
       IN  IF r.exc = NoException
           THEN /\ docs' = New(docs, r.value)
                /\ last_op' = [last_op EXCEPT !.result =
                                  PyList(Append(@.items, PyRef(Len(docs) + 1)))]
           ELSE /\ docs' = docs
                /\ last_op' = [last_op EXCEPT !.result =
                                  PyList(Append(@.items, PyRaise(r.exc)))]
    /\ UNCHANGED <<settingsVars, ioVars, searchVars>>

NextIds == SourceDocumentEnhanced_from_metadata_next

SpecIds == InitIds /\ [][NextIds]_vars

(* ---------------------- StructuredDocumentChunking -------------------- *)

\* documents handed to one chunk call
MaxChunkDocs == 2

\* chunks the splitter makes of one text
MaxChunks == 3

\* SourceDocument.from_metadata(content, document_url, researcher_metadata,
\* metadata, idx), the base class's counterpart of
\* SourceDocumentEnhanced.from_metadata: the same fields from metadata and
\* the same defaults, in an object of the base class.
SourceDocument_from_metadata(content, url, researcher_metadata, metadata, idx) ==
    LET r == from_metadata(content, metadata, url, idx)
    IN  IF r.exc # NoException THEN r
        ELSE [exc |-> NoException,
              value |-> [SourceDocument(BaseArgs(r.value))
                            EXCEPT !.researcher_metadata = researcher_metadata]]

RECURSIVE Join(_)
\* "".join(list(map(lambda document: document.content, documents)))
Join(documents) ==
    IF documents = <<>> THEN <<>>
    ELSE Head(documents).content.s \o Join(Tail(documents))

\* The pieces of a text: [start, len], the len characters from position
\* start (from 0) on.
Pieces(text) ==
    {x \in [start : 0..(Len(text) - 1), len : 1..Len(text)] :
        x.start + x.len <= Len(text)}

\* the white space the splitter strips from the ends of a chunk
Whitespace == {" "}

\* What RecursiveCharacterTextSplitter.split_text may return for a text:
\* pieces of it that are not empty, each starting after the one before
\* started; with an overlap two of them share characters. The splitter
\* strips white space from the ends of a piece, and what is in no piece is
\* white space.
split_text(text) ==
    {l \in UNION {[1..n -> Pieces(text)] : n \in 0..MaxChunks} :
        /\ \A i \in 1..(Len(l) - 1) : l[i].start < l[i + 1].start
        /\ \A i \in DOMAIN l :
              /\ text[l[i].start + 1] \notin Whitespace
              /\ text[l[i].start + l[i].len] \notin Whitespace
        /\ \A c \in DOMAIN text :
              (\A i \in DOMAIN l : c <= l[i].start \/ c > l[i].start + l[i].len)
                  => text[c] \in Whitespace}

\* the characters of a piece
PieceOf(text, x) == PyS(SubSeq(text, x.start + 1, x.start + x.len))

\* A loop that assigns the length of the chunk instead of adding it.
NextOffsetAssign(chunk_offset, chunked_content) == Len(chunked_content.s)

\* chunk_offset += len(chunked_content)
NextOffset(chunk_offset, chunked_content) == chunk_offset + Len(chunked_content.s)

RECURSIVE ChunkLoop(_, _, _, _, _, _)
\* The loop of chunk, lines 26-36, from index idx on: [exc, value], value the
\* list documents built so far.
ChunkLoop(chunked_content_list, idx, chunk_offset, url, researcher_metadata, acc) ==
    IF idx >= Len(chunked_content_list) THEN [exc |-> NoException, value |-> acc]
    ELSE LET chunked_content == chunked_content_list[idx + 1]
             r == SourceDocument_from_metadata(
                      chunked_content, url, researcher_metadata,
                      PyDict([offset |-> PyInt(chunk_offset)]), PyInt(idx))
         IN  IF r.exc # NoException THEN [exc |-> r.exc, value |-> acc]
             ELSE ChunkLoop(chunked_content_list, idx + 1,
                            NextOffset(chunk_offset, chunked_content),
                            url, researcher_metadata, Append(acc, r.value))

\* StructuredDocumentChunking.chunk(documents, chunking): [exc, value], given
\* the list of chunks the splitter returned. documents[0] of an empty list
\* raises IndexError.
chunk_of(documents, chunked_content_list) ==
    IF documents = <<>>
    THEN [exc |-> Exception("IndexError", "list index out of range"), value |-> <<>>]
    ELSE ChunkLoop(chunked_content_list, 0, 0, documents[1].source,
                   documents[1].researcher_metadata, <<>>)

\* The documents a loader returned: content and source set, the rest None.
LoadedDocuments ==
    {SourceDocument(<<PyS(c), u, PyNone, PyNone, PyNone, PyNone, PyNone, PyNone>>) :
        c \in {<<"a", "b">>, <<" ", "c">>},
        u \in {PyS(<<"https", "://", "host", "/", "doc.txt">>),
               PyS(<<"https", "://", "acct", ".blob.core.windows.net", "/",
                     "doc.txt", "?", "sv=1">>)}}

\* chunk is called with all the documents there are
InitChunk ==
    /\ InitSettings /\ NoLoad /\ NoSearch
    /\ docs \in UNION {[1..n -> LoadedDocuments] : n \in 0..MaxChunkDocs}
    /\ last_op = NoOp

\* StructuredDocumentChunking.chunk(docs, chunking): the splitter's result
\* for the settings in chunking is one of split_text's values.
chunk ==
    /\ last_op.op = "none"
    /\ \E split \in split_text(Join(docs)) :
          LET chunked_content_list ==
                  [i \in DOMAIN split |-> PieceOf(Join(docs), split[i])]
              r == chunk_of(docs, chunked_content_list)
          IN  IF r.exc = NoException
              THEN /\ docs' = docs \o r.value
                   /\ last_op' = [op |-> "chunk",
                                  args |-> <<Len(docs), split>>,
                                  result |-> PyList(
                                      [i \in DOMAIN r.value |-> PyRef(Len(docs) + i)])]
              ELSE /\ docs' = docs
                   /\ last_op' = [op |-> "chunk",
                                  args |-> <<Len(docs), split>>,
                                  result |-> PyRaise(r.exc)]
    /\ UNCHANGED <<settingsVars, ioVars, searchVars>>

NextChunk == chunk

SpecChunk == InitChunk /\ [][NextChunk]_vars

(* ------------------ AzureSearchIndex, AzureSearchIndexer -------------- *)

\* calls of the builders in one run
MaxSearchCalls == 2

\* The AzureSearchIndex objects, each constructed with its own llm_helper.
IndexInstances == {1, 2}

\* The lengths of the vectors the embedding models return.
EmbedLens == {1536, 3072}

\* AssistantStrategy.RESEARCH_ASSISTANT.value
RESEARCH_ASSISTANT == "research assistant"

\* the values of config.prompts["ai_assistant_type"]
AssistantTypes == {"default", RESEARCH_ASSISTANT, "Research Assistant"}

\* self.env_helper of the builders: the settings they read
env_helper == [AZURE_SEARCH_INDEX |-> "conversations",
               AZURE_SEARCH_SEMANTIC_SEARCH_CONFIG |-> "default",
               AZURE_SEARCH_DATASOURCE_NAME |-> "datasource"]

\* SimpleField, SearchableField or SearchField that holds no vector
Field(name) == [name |-> name, key |-> FALSE, vector |-> FALSE,
                vector_search_dimensions |-> 0, vector_search_profile_name |-> ""]

\* SearchField(key=True)
KeyField(name) == [Field(name) EXCEPT !.key = TRUE]

\* A vector field that names a profile the configuration does not define.
VectorFieldOtherProfile(name, dims) ==
    [name |-> name, key |-> FALSE, vector |-> TRUE,
     vector_search_dimensions |-> dims,
     vector_search_profile_name |-> "myProfile"]

\* SearchField(type=Collection(Single), vector_search_dimensions=dims,
\* vector_search_profile_name="myHnswProfile")
VectorField(name, dims) ==
    [name |-> name, key |-> FALSE, vector |-> TRUE,
     vector_search_dimensions |-> dims,
     vector_search_profile_name |-> "myHnswProfile"]

\* the fields of create_or_update_index, lines 65-109
StandardFields(dims) ==
    <<Field("id"), Field("content"), VectorField("content_vector", dims),
      Field("metadata"), Field("title"), Field("source"), Field("chunk"),
      Field("offset"), KeyField("chunk_id")>>

\* the fields of create_or_update_researcher_index, lines 219-417
ResearcherFields(dims) ==
    <<Field("id"), Field("primary_investigator"), KeyField("proposal_id"),
      Field("proposal_url"), Field("ADO_ID"), Field("ADO_API_URL"),
      Field("program_manager"), Field("institution"), Field("cluster"),
      Field("topic"), Field("abstract"), Field("Impact"), Field("Benchmark"),
      Field("Outcomes"), Field("Approach"), Field("Novelty"), Field("Domain"),
      Field("Task"), Field("Challenges"), Field("has_publications"),
      Field("publication_urls"), Field("Keywords"),
      VectorField("topic_vector", dims), VectorField("abstract_vector", dims),
      VectorField("Impact_vector", dims), VectorField("Benchmark_vector", dims),
      VectorField("Outcomes_vector", dims), VectorField("Approach_vector", dims),
      VectorField("Novelty_vector", dims), VectorField("Domain_vector", dims),
      VectorField("Task_vector", dims), VectorField("Challenges_vector", dims),
      Field("title"), Field("source")>>

\* AzureSearchIndex.get_vector_search_config
get_vector_search_config ==
    [algorithms |-> <<"myHnsw", "myExhaustiveKnn">>,
     profiles |-> <<[name |-> "myHnswProfile",
                     algorithm_configuration_name |-> "myHnsw",
                     vectorizer |-> "myOpenAI"],
                    [name |-> "myExhaustiveKnnProfile",
                     algorithm_configuration_name |-> "myExhaustiveKnn",
                     vectorizer |-> "myOpenAI"]>>,
     vectorizers |-> <<"myOpenAI">>]

\* AzureSearchIndex.get_semantic_search_config
get_semantic_search_config ==
    [name |-> env_helper.AZURE_SEARCH_SEMANTIC_SEARCH_CONFIG,
     title_field |-> "",
     content_fields |-> <<"content">>,
     keywords_fields |-> <<>>]

\* AzureSearchIndex.get_semantic_search_researcher_config
get_semantic_search_researcher_config ==
    [name |-> env_helper.AZURE_SEARCH_SEMANTIC_SEARCH_CONFIG,
     title_field |-> "title",
     content_fields |-> <<"topic", "abstract", "Impact", "Benchmark", "Outcomes",
                          "Approach", "Novelty", "Domain", "Task", "Challenges">>,
     keywords_fields |-> <<"cluster", "program_manager", "primary_investigator",
                           "institution", "Keywords", "source">>]

\* A property that asks the instance's embedding model on every read.
search_dimensions_uncached(cache, self) == embed_len[self]

\* The property AzureSearchIndex.search_dimensions read by instance self with
\* the class attribute at cache: the value it leaves in the class attribute,
\* which is the value it returns.
search_dimensions(cache, self) ==
    IF cache = None THEN embed_len[self] ELSE cache

\* A test that never takes the research assistant branch.
IsResearchAssistantNever(ai_assistant_type) == FALSE

\* config.prompts["ai_assistant_type"] == AssistantStrategy.RESEARCH_ASSISTANT.value
IsResearchAssistant(ai_assistant_type) == ai_assistant_type = RESEARCH_ASSISTANT

\* SearchIndex(name=..., fields=..., vector_search=..., semantic_search=...)
\* of create_or_update_index or, on the research assistant branch, of
\* create_or_update_researcher_index, with dims the value of
\* self.search_dimensions
SearchIndex(ai_assistant_type, dims) ==
    IF IsResearchAssistant(ai_assistant_type)
    THEN [name |-> env_helper.AZURE_SEARCH_INDEX,
          fields |-> ResearcherFields(dims),
          vector_search |-> get_vector_search_config,
          semantic_search |-> get_semantic_search_researcher_config]
    ELSE [name |-> env_helper.AZURE_SEARCH_INDEX,
          fields |-> StandardFields(dims),
          vector_search |-> get_vector_search_config,
          semantic_search |-> get_semantic_search_config]

\* AzureSearchIndex.create_or_update_index of instance self, under an active
\* configuration with the given ai_assistant_type. embed_query is called only
\* while the class attribute is None; if it raises (embedOk false) the call
\* ends before any request. The request to the index client returns or
\* raises (clientOk), and what it raises propagates.
create_or_update_index(self) ==
    /\ Len(search_calls) < MaxSearchCalls
    /\ \E ai_assistant_type \in AssistantTypes, embedOk, clientOk \in BOOLEAN :
          /\ _search_dimension # None => embedOk
          /\ ~embedOk => clientOk
          /\ IF ~embedOk
             THEN /\ search_calls' = Append(search_calls,
                        [op |-> "create_or_update_index", self |-> self,
                         arg |-> ai_assistant_type, outcome |-> "raise",
                         at |-> "embed_query"])
                  /\ UNCHANGED <<_search_dimension, index_requests>>
             ELSE /\ _search_dimension' = search_dimensions(_search_dimension, self)
                  /\ index_requests' = Append(index_requests,
                        [call |-> Len(search_calls) + 1, client |-> self,
                         index |-> SearchIndex(ai_assistant_type,
                                      search_dimensions(_search_dimension, self))])
                  /\ search_calls' = Append(search_calls,
                        [op |-> "create_or_update_index", self |-> self,
                         arg |-> ai_assistant_type,
                         outcome |-> IF clientOk THEN "return" ELSE "raise",
                         at |-> IF clientOk THEN "" ELSE "create_or_update_index"])
    /\ UNCHANGED <<embed_len, indexer_requests, skillset_requests>>
    /\ UNCHANGED <<settingsVars, ioVars, docVars>>

\* the indexer names the indexer builder is called with
IndexerNames == {"indexer-a", "indexer-b"}

\* FieldMapping(source_field_name=..., target_field_name=...)
FieldMapping(source_field_name, target_field_name) ==
    [source_field_name |-> source_field_name,
     target_field_name |-> target_field_name]

\* FieldMapping of a source field to the target field of the same name
SameName(name) == FieldMapping(name, name)

\* parameters["configuration"] of an indexer definition, lines 30-36 and
\* 69-73; a key the configuration does not have is ""
IndexerConfiguration(researcher) ==
    IF researcher
    THEN [dataToExtract |-> "contentAndMetadata", parsingMode |-> "json",
          imageAction |-> "", allowSkillsetToReadFileData |-> "true"]
    ELSE [dataToExtract |-> "contentAndMetadata", parsingMode |-> "default",
          imageAction |-> "generateNormalizedImages",
          allowSkillsetToReadFileData |-> ""]

\* field_mappings of create_or_update_indexer, lines 37-50
StandardFieldMappings ==
    <<FieldMapping("metadata_storage_path", "source"),
      FieldMapping("/document/normalized_images/*/text", "text"),
      FieldMapping("/document/normalized_images/*/layoutText", "layoutText")>>

\* field_mappings of create_or_update_researcher_indexer, lines 74-209 (the
\* mapping of proposal_id is commented out)
ResearcherFieldMappings ==
    <<SameName("proposal_url"), SameName("ADO_ID"), SameName("ADO_API_URL"),
      SameName("has_publications"), SameName("publication_urls"),
      FieldMapping("metadata_storage_path", "source"),
      FieldMapping("metadata_storage_name", "title"),
      SameName("primary_investigator"), SameName("program_manager"),
      SameName("institution"), SameName("cluster"), SameName("topic"),
      SameName("abstract"), SameName("Impact"), SameName("Benchmark"),
      SameName("Outcomes"), SameName("Approach"), SameName("Novelty"),
      SameName("Domain"), SameName("Task"), SameName("Challenges"),
      SameName("Keywords"), SameName("topic_vector"),
      SameName("abstract_vector"), SameName("Impact_vector"),
      SameName("Benchmark_vector"), SameName("Outcomes_vector"),
      SameName("Approach_vector"), SameName("Novelty_vector"),
      SameName("Domain_vector"), SameName("Task_vector"),
      SameName("Challenges_vector")>>

\* An indexer builder that runs the indexer whatever the first request did.
RunsAfterCreateAlways(createOk) == TRUE

\* Line 54 (213) is reached only if the request of line 52 (211) returned:
\* an exception it raises is not caught.
RunsAfterCreate(createOk) == createOk

\* AzureSearchIndexer.create_or_update_indexer (researcher false) and
\* create_or_update_researcher_indexer (researcher true), called with
\* indexer_name and a skillset name. Each of the two client requests returns
\* or raises (createOk, runOk).
create_or_update_indexer(researcher, indexer_name) ==
    /\ Len(search_calls) < MaxSearchCalls
    /\ \E createOk, runOk \in BOOLEAN :
          /\ ~createOk => runOk
          /\ indexer_requests' = indexer_requests
                \o <<[call |-> Len(search_calls) + 1,
                      request |-> "create_or_update_indexer",
                      name |-> indexer_name,
                      target_index_name |-> env_helper.AZURE_SEARCH_INDEX,
                      configuration |-> IndexerConfiguration(researcher),
                      field_mappings |-> IF researcher
                                         THEN ResearcherFieldMappings
                                         ELSE StandardFieldMappings,
                      researcher |-> researcher]>>
                \o (IF RunsAfterCreate(createOk)
                    THEN <<[call |-> Len(search_calls) + 1,
                            request |-> "run_indexer",
                            name |-> indexer_name,
                            target_index_name |-> "",
                            configuration |-> <<>>,
                            field_mappings |-> <<>>,
                            researcher |-> researcher]>>
                    ELSE <<>>)
          /\ search_calls' = Append(search_calls,
                [op |-> IF researcher THEN "create_or_update_researcher_indexer"
                        ELSE "create_or_update_indexer",
                 self |-> 1, arg |-> indexer_name,
                 outcome |-> IF createOk /\ runOk THEN "return" ELSE "raise",
                 at |-> IF ~createOk THEN "create_or_update_indexer"
                        ELSE IF ~runOk THEN "run_indexer" ELSE ""])
    /\ UNCHANGED <<_search_dimension, embed_len, index_requests,
                   skillset_requests>>
    /\ UNCHANGED <<settingsVars, ioVars, docVars>>

(* -------------------------- AzureSearchSkillset ----------------------- *)

\* An enrichment path such as /document/pages/* is the sequence of its
\* segments, <<"document", "pages", "*">>.
\* InputFieldMappingEntry(name=..., source=...)
InputFieldMappingEntry(name, source) == [name |-> name, source |-> source]

\* OutputFieldMappingEntry(name=..., target_name=...)
OutputFieldMappingEntry(name, target_name) ==
    [name |-> name, target_name |-> target_name]

\* OcrSkill, MergeSkill, SplitSkill or AzureOpenAIEmbeddingSkill
Skill(type, context, inputs, outputs) ==
    [type |-> type, context |-> context, inputs |-> inputs, outputs |-> outputs]

\* lines 46-59
ocr_skill ==
    Skill("OcrSkill", <<"document", "normalized_images", "*">>,
          <<InputFieldMappingEntry("image", <<"document", "normalized_images", "*">>)>>,
          <<OutputFieldMappingEntry("text", "text"),
            OutputFieldMappingEntry("layoutText", "layoutText")>>)

\* lines 61-76
merge_skill ==
    Skill("MergeSkill", <<"document">>,
          <<InputFieldMappingEntry("text", <<"document", "content">>),
            InputFieldMappingEntry("itemsToInsert",
                <<"document", "normalized_images", "*", "text">>),
            InputFieldMappingEntry("offsets",
                <<"document", "normalized_images", "*", "contentOffset">>)>>,
          <<OutputFieldMappingEntry("mergedText", "merged_content")>>)

\* lines 78-88
split_skill ==
    Skill("SplitSkill", <<"document">>,
          <<InputFieldMappingEntry("text", <<"document", "merged_content">>)>>,
          <<OutputFieldMappingEntry("textItems", "pages")>>)

\* lines 90-106
embedding_skill ==
    Skill("AzureOpenAIEmbeddingSkill", <<"document", "pages", "*">>,
          <<InputFieldMappingEntry("text", <<"document", "pages", "*">>)>>,
          <<OutputFieldMappingEntry("embedding", "content_vector")>>)

\* The skills with the merge skill ahead of the OCR skill.
StandardSkillsMergeFirst == <<merge_skill, ocr_skill, split_skill, embedding_skill>>

\* skills=[...] of line 137
StandardSkills == <<ocr_skill, merge_skill, split_skill, embedding_skill>>

\* the mappings of the selector of lines 114-126
StandardProjectionMappings ==
    <<InputFieldMappingEntry("content", <<"document", "pages", "*">>),
      InputFieldMappingEntry("content_vector",
          <<"document", "pages", "*", "content_vector">>),
      InputFieldMappingEntry("title", <<"document", "title">>),
      InputFieldMappingEntry("source", <<"document", "metadata_storage_path">>)>>

\* SearchIndexerIndexProjections with one selector
IndexProjections(source_context, mappings) ==
    [selectors |-> <<[target_index_name |-> env_helper.AZURE_SEARCH_INDEX,
                      parent_key_field_name |-> "id",
                      source_context |-> source_context,
                      mappings |-> mappings]>>,
     projection_mode |-> "SKIP_INDEXING_PARENT_DOCUMENTS"]

\* the researcher embedding skill of one field, lines 148-326
ResearcherEmbeddingSkill(field, target_name) ==
    Skill("AzureOpenAIEmbeddingSkill", <<"document">>,
          <<InputFieldMappingEntry("text", <<"document", field>>)>>,
          <<OutputFieldMappingEntry("embedding", target_name)>>)

\* skills=[...] of lines 482-493
ResearcherSkills ==
    <<ResearcherEmbeddingSkill("topic", "topic_vector"),
      ResearcherEmbeddingSkill("abstract", "abstract_vector"),
      ResearcherEmbeddingSkill("Impact", "Impact_vector"),
      ResearcherEmbeddingSkill("Benchmark", "Benchmark_vector"),
      ResearcherEmbeddingSkill("Outcomes", "Outcomes_vector"),
      ResearcherEmbeddingSkill("Approach", "Approach_vector"),
      ResearcherEmbeddingSkill("Novelty", "Novelty_vector"),
      ResearcherEmbeddingSkill("Domain", "Domain_vector"),
      ResearcherEmbeddingSkill("Task", "Task_vector"),
      ResearcherEmbeddingSkill("Challenges", "Challenges_vector")>>

\* a mapping of the researcher selector from /document/<name> to <name>
FromDocument(name) == InputFieldMappingEntry(name, <<"document", name>>)

\* the mappings that are not commented out in lines 334-471
ResearcherMappingsInUse ==
    <<InputFieldMappingEntry("source", <<"document", "metadata_storage_path">>),
      InputFieldMappingEntry("title", <<"document", "metadata_storage_name">>),
      FromDocument("proposal_url"), FromDocument("ADO_ID"),
      FromDocument("ADO_API_URL"), FromDocument("primary_investigator"),
      FromDocument("program_manager"), FromDocument("institution"),
      FromDocument("cluster"), FromDocument("topic"), FromDocument("abstract"),
      FromDocument("Impact"), FromDocument("Benchmark"), FromDocument("Outcomes"),
      FromDocument("Approach"), FromDocument("Novelty"), FromDocument("Domain"),
      FromDocument("Task"), FromDocument("Challenges"),
      FromDocument("has_publications"), FromDocument("publication_urls"),
      FromDocument("Keywords"), FromDocument("topic_vector"),
      FromDocument("abstract_vector"), FromDocument("Impact_vector"),
      FromDocument("Benchmark_vector"), FromDocument("Outcomes_vector"),
      FromDocument("Approach_vector"), FromDocument("Novelty_vector"),
      FromDocument("Domain_vector"), FromDocument("Task_vector"),
      FromDocument("Challenges_vector")>>

\* The mappings with the commented-out mapping of metadata among them.
ResearcherMappingsWithMetadata ==
    Append(ResearcherMappingsInUse, FromDocument("metadata"))

\* the mappings of the selector of lines 334-471
ResearcherProjectionMappings == ResearcherMappingsInUse

\* SearchIndexerSkillset(...) of lines 134-139 (researcher false) and of
\* lines 479-495 (researcher true); the name is the index name and a suffix
SearchIndexerSkillset(researcher) ==
    IF researcher
    THEN [name |-> <<env_helper.AZURE_SEARCH_INDEX, "-researcher-skillset">>,
          skills |-> ResearcherSkills,
          index_projections |->
              IndexProjections(<<"document">>, ResearcherProjectionMappings)]
    ELSE [name |-> <<env_helper.AZURE_SEARCH_INDEX, "-skillset">>,
          skills |-> StandardSkills,
          index_projections |->
              IndexProjections(<<"document", "pages", "*">>,
                               StandardProjectionMappings)]

\* AzureSearchSkillset.create_skillset (researcher false) and
\* create_researcher_skillset (researcher true): the skillset is built and
\* submitted to the indexer client, whose request returns or raises
\* (clientOk); what it raises propagates.
create_skillset(researcher) ==
    /\ Len(search_calls) < MaxSearchCalls
    /\ \E clientOk \in BOOLEAN :
          /\ skillset_requests' = Append(skillset_requests,
                [call |-> Len(search_calls) + 1,
                 skillset |-> SearchIndexerSkillset(researcher)])
          /\ search_calls' = Append(search_calls,
                [op |-> IF researcher THEN "create_researcher_skillset"
                        ELSE "create_skillset",
                 self |-> 1, arg |-> "",
                 outcome |-> IF clientOk THEN "return" ELSE "raise",
                 at |-> IF clientOk THEN "" ELSE "create_or_update_skillset"])
    /\ UNCHANGED <<_search_dimension, embed_len, index_requests,
                   indexer_requests>>
    /\ UNCHANGED <<settingsVars, ioVars, docVars>>

\* The builders exist and nothing was asked of them; every AzureSearchIndex
\* has an llm_helper whose embedding model returns vectors of some length.
InitSearch ==
    /\ InitSettings /\ NoLoad /\ NoDocs
    /\ _search_dimension = None
    /\ embed_len \in [IndexInstances -> EmbedLens]
    /\ index_requests = <<>>
    /\ indexer_requests = <<>>
    /\ skillset_requests = <<>>
    /\ search_calls = <<>>

NextSearch ==
    \/ \E self \in IndexInstances : create_or_update_index(self)
    \/ \E researcher \in BOOLEAN, indexer_name \in IndexerNames :
          create_or_update_indexer(researcher, indexer_name)
    \/ \E researcher \in BOOLEAN : create_skillset(researcher)

SpecSearch == InitSearch /\ [][NextSearch]_vars

(* --------------------------- specifications --------------------------- *)

Init == InitSettings /\ NoLoad /\ NoDocs /\ NoSearch

Next ==
    \/ \E t \in Threads : JsonDocumentLoading_init(t)
    \/ \E t \in Threads : SettingsStep(t)
    \/ clear_instance

Spec == Init /\ [][Next]_vars

NextStrategy ==
    \/ \E s \in Strategies : get_document_loader(MainThread, s)
    \/ SettingsStep(MainThread)

SpecStrategy == Init /\ [][NextStrategy]_vars

NextCsv == CsvDocumentLoading_load

SpecCsv == InitCsv /\ [][NextCsv]_vars

(* ------- construction, clear_instance and load in one program --------- *)

\* The payloads of the loads of this program: no field at all, and for each
\* document type every field and every field but the first content key; the
\* publications are an empty list. One payload is no dictionary.
StrictPayloads ==
    {PyDict(<<>>), PyStr}
    \cup UNION {
             {PyDict([k \in SchemaFields(ty) \ absent |->
                         IF k = "publications" THEN PyList(<<>>) ELSE PyStr]) :
                 absent \in {{}, {_key_fields[ty][1]}}}
             : ty \in KeyType \ {"CONTENT_PUBLICATIONS"}}

\* self.settings of a loader is None when clear_instance ran between the
\* assignment of cls._instance and `return cls._instance`: the first use of
\* it in _load_schema_from_dict, line 262, raises AttributeError.
NoSettings == Exception("AttributeError", "get_key_fields")

\* The main thread calls load(url) on the JsonDocumentLoading it was
\* returned, and the download gives the payload: load up to the call of
\* _load_schema_from_dict.
load_begin ==
    /\ load_pc = "none"
    /\ pc[MainThread] = "idle"
    /\ ret[MainThread].kind = "loader"
    /\ ret[MainThread].type = "JsonDocumentLoading"
    /\ \E url \in JsonUrls, payload \in StrictPayloads :
          /\ document_url' = url
          /\ data' = payload
          /\ IF IsDict(payload) /\ ret[MainThread].settings = None
             THEN /\ raised' = NoSettings
                  /\ load_pc' = "done"
             ELSE /\ raised' = raised
                  /\ load_pc' = "json"
    /\ UNCHANGED <<source_documents, csv_file, return_dict, writes>>
    /\ UNCHANGED <<settingsVars, docVars, searchVars>>

\* Nothing is constructed and nothing loaded yet.
InitStrict == InitSettings /\ NoLoad /\ NoDocs /\ NoSearch

\* The main thread constructs loaders, clear_instance is called from
\* anywhere, and then the main thread loads one document.
NextStrict ==
    \/ load_pc = "none" /\ JsonDocumentLoading_init(MainThread)
    \/ load_pc = "none" /\ SettingsStep(MainThread)
    \/ load_pc = "none" /\ clear_instance
    \/ load_begin
    \/ load_json_check
    \/ load_content_keys
    \/ load_metadata_keys
    \/ load_return

SpecStrict == InitStrict /\ [][NextStrict]_vars

NextJson ==
    \/ load_json_check
    \/ load_content_keys
    \/ load_metadata_keys
    \/ load_return

SpecJson == InitJson /\ [][NextJson]_vars

(* ------------------------------- claims ------------------------------- *)

RECURSIVE TotalInits(_)
\* how often the body of JsonDocumentSettings.__init__ has run, over the
\* first n objects allocated
TotalInits(n) == IF n = 0 THEN 0 ELSE heap[n].inits + TotalInits(n - 1)

\* C1: as long as clear_instance has not been called, however the threads'
\* JsonDocumentSettings() calls interleave, every call has returned the same
\* object, at most one settings object has been allocated, and the class's
\* _instance slot holds nothing but that object.
C1_SingleInstance ==
    clears = 0 =>
        /\ Len(heap) <= 1
        /\ Cardinality(returned) <= 1
        /\ None \notin returned
        /\ _instance \in {None} \cup (1..Len(heap))
        /\ \A t \in Threads : ret[t].kind = "loader" => ret[t].settings \in returned

\* C1 witness: every thread has completed all of its calls, concurrently with
\* the others and with no clear_instance, and all got the one object.
C1_Witness ==
    /\ clears = 0
    /\ \A t \in Threads : calls[t] = MaxCalls /\ ret[t].settings = 1
    /\ returned = {1}

\* C2: without clear_instance, the body of JsonDocumentSettings.__init__ runs
\* once in total over any number of JsonDocumentSettings() calls.
C2_InitOnce == clears = 0 => TotalInits(Len(heap)) <= 1

\* C4 (state part): after get_document_loader(s) the result is an exception
\* exactly when s is none of the six names, and otherwise a loader of the
\* class that belongs to the name.
C4_Result ==
    \A t \in Threads :
        (pc[t] = "idle" /\ calls[t] > 0) =>
            LET s == loader_strategy[t]
                six == {"layout", "read", "web", "docx", "json", "csv"}
                class == [n \in six |->
                            CASE n = "layout" -> "LayoutDocumentLoading"
                              [] n = "read" -> "ReadDocumentLoading"
                              [] n = "web" -> "WebDocumentLoading"
                              [] n = "docx" -> "WordDocumentLoading"
                              [] n = "json" -> "JsonDocumentLoading"
                              [] n = "csv" -> "CsvDocumentLoading"]
            IN  /\ (ret[t].kind = "raise") <=> (s \notin six)
                /\ s \in six =>
                      /\ ret[t].kind = "loader"
                      /\ ret[t].type = class[s]
                      /\ ret[t].id \in DOMAIN loaders
                      /\ loaders[ret[t].id] = class[s]

\* C4 (step part): the loader a call returns did not exist before the call.
C4_New ==
    \A t \in Threads :
        (calls'[t] = calls[t] + 1 /\ ret'[t].kind = "loader") =>
            /\ ret'[t].id \notin DOMAIN loaders
            /\ ret'[t].id \in DOMAIN loaders'

\* C4: get_document_loader raises if and only if the strategy name is not
\* exactly one of layout, read, web, docx, json, csv; for each of the six it
\* returns a new loader of the corresponding class.
C4_GetDocumentLoader == [](C4_Result) /\ [][C4_New]_vars

\* C4 witness: a csv loader was returned first, and a call with a name that
\* differs only in case has then raised.
C4_Witness ==
    /\ pc[MainThread] = "idle"
    /\ loader_strategy[MainThread] = "Json"
    /\ ret[MainThread].kind = "raise"
    /\ loaders = <<"CsvDocumentLoading">>

RECURSIVE CountKind(_, _)
\* the number of lines of kind k in a file
CountKind(lines, k) ==
    IF lines = <<>> THEN 0
    ELSE (IF Head(lines) = k THEN 1 ELSE 0) + CountKind(Tail(lines), k)

\* C3 as stated: a CSV file with N data rows (its records, not its header line
\* and not its empty lines) loads as exactly N documents, each with the file
\* path as source.
C3_DataRows ==
    load_pc = "done" =>
        /\ Len(source_documents) = CountKind(csv_file, "record")
        /\ \A i \in DOMAIN source_documents :
               source_documents[i].source = document_url

\* C3 amended: load returns one document per non-empty line of the file, a
\* header line included (the loader fixes the field names, so no line is read
\* as a header), each with the file path as source.
C3_NonEmptyLines ==
    load_pc = "done" =>
        /\ Len(source_documents) =
               CountKind(csv_file, "record") + CountKind(csv_file, "header")
        /\ \A i \in DOMAIN source_documents :
               source_documents[i].source = document_url

\* C3 witness: a file of a header line, two records and an empty line between
\* them has been loaded.
C3_Witness ==
    /\ load_pc = "done"
    /\ csv_file = <<"header", "record", "blank", "record">>
    /\ Len(source_documents) = 3

(* claims about JsonDocumentLoading.load, on SpecJson *)

\* the document type of the URL being loaded
DocType == _get_json_document_type(document_url)

\* the payload's publications value; PyNone when it has none
Pubs == IF "publications" \in DOMAIN data.fields
        THEN data.fields["publications"] ELSE PyNone

\* the payload has no publications field, or one that is a list of dictionaries
PubsAbsentOrListOfDicts ==
    \/ "publications" \notin DOMAIN data.fields
    \/ /\ Pubs.kind = "list"
       /\ \A i \in DOMAIN Pubs.items : Pubs.items[i].kind = "dict"

\* C5: a payload that is neither a dictionary nor a list never gets past the
\* type check of _load_json: load ends with the "must be a dictionary"
\* ValueError and no SourceDocument.
C5_ScalarPayloadRaises ==
    (data.kind \notin {"dict", "list"}) =>
        /\ load_pc \in {"json", "done"}
        /\ load_pc = "done" => (raised = MustBeDict /\ source_documents = <<>>)

\* C5 witness: the load of a payload that is a bare string has ended.
C5_Witness == load_pc = "done" /\ data = PyStr /\ raised.type = "ValueError"

\* C6 as stated: a payload whose top level is a list does not raise the
\* "must be a dictionary" error.
C6_ListPasses ==
    (data.kind = "list" /\ load_pc = "done") => raised # MustBeDict

\* C6 amended: the type check of _load_json lets dictionaries through and
\* nothing else; a list payload is rejected with the "must be a dictionary"
\* ValueError like every other payload that is no dictionary.
C6_ListRejected ==
    /\ (data.kind = "list" /\ load_pc = "done") =>
           (raised = MustBeDict /\ source_documents = <<>>)
    /\ load_pc \in {"content", "metadata", "wrap"} => data.kind = "dict"
    /\ (data.kind = "dict" /\ load_pc = "done") => raised # MustBeDict

\* C6 witness: the load of a non-empty list payload has ended with the error.
C6_Witness ==
    /\ load_pc = "done"
    /\ data = PyList(<<PyDict(<<>>)>>)
    /\ raised = MustBeDict

\* A field of the document type's content or metadata key set is absent from
\* the dictionary payload, or the type has the publications field and an
\* entry of the payload's publications list lacks one of the content fields
\* of a publication.
SomeFieldAbsent ==
    /\ data.kind = "dict"
    /\ LET typeFields == Range(_key_fields[DocType])
                         \cup Range(_metadata_key_fields[DocType])
       IN  \/ \E k \in typeFields : k \notin DOMAIN data.fields
           \/ /\ "publications" \in typeFields
              /\ Pubs.kind = "list"
              /\ \E i \in DOMAIN Pubs.items :
                    /\ Pubs.items[i].kind = "dict"
                    /\ \E k \in Range(_content_publications_keys) :
                          k \notin DOMAIN Pubs.items[i].fields

C8_AbsentIsDefaulted ==
    (~strict /\ data.kind = "dict" /\ PubsAbsentOrListOfDicts /\ load_pc = "done") =>
        /\ raised = NoException
        /\ Len(source_documents) = 1
        /\ \A k \in Range(_key_fields[DocType]) \ DOMAIN data.fields :
              /\ k \in DOMAIN return_dict.content
              /\ return_dict.content[k] = PyNone
        /\ \A k \in Range(_metadata_key_fields[DocType]) \ DOMAIN data.fields :
              /\ k \in DOMAIN return_dict.metadata
              /\ return_dict.metadata[k] = PyNone

\* C9: whenever a dictionary payload loads without error, the keys of the
\* content dictionary are exactly the content keys configured for the
\* document type.
C9_ContentKeys ==
    (load_pc \in {"metadata", "wrap", "done"} /\ raised = NoException) =>
        DOMAIN return_dict.content = Range(_key_fields[DocType])

\* C9 witness: with strict mode off, a default-type payload that lacks topic,
\* has a field the schema does not know and has two publications was loaded.
C9_Witness ==
    /\ load_pc = "done"
    /\ raised = NoException
    /\ DocType = "CONTENT"
    /\ "topic" \notin DOMAIN data.fields
    /\ "body" \in DOMAIN data.fields
    /\ Pubs.kind = "list"
    /\ Len(Pubs.items) = 2
    /\ Len(source_documents) = 1

\* C10: whenever a dictionary payload loads without error, the keys of the
\* metadata dictionary are exactly the metadata keys configured for the
\* document type, and the loop over the metadata keys has assigned nothing in
\* the content dictionary.
C10_MetadataKeys ==
    (load_pc = "done" /\ raised = NoException) =>
        /\ DOMAIN return_dict.metadata = Range(_metadata_key_fields[DocType])
        /\ \A w \in writes : w.loop = "metadata" => w.dict = "metadata"

(* claims about source documents, on SpecDocs *)

\* C11: two SourceDocumentEnhanced objects compare equal if and only if their
\* base fields (content, source, id, title, chunk, offset, page_number,
\* chunk_id) are all equal and their enhanced_metadata mappings are equal;
\* whether they are the same object plays no role.
C11_StructuralEquality ==
    (/\ last_op.op = "__eq__"
     /\ docs[last_op.args[1]].class = "SourceDocumentEnhanced"
     /\ docs[last_op.args[2]].class = "SourceDocumentEnhanced") =>
        LET a == docs[last_op.args[1]]
            b == docs[last_op.args[2]]
        IN  last_op.result =
                PyBool(/\ a.content = b.content
                       /\ a.source = b.source
                       /\ a.id = b.id
                       /\ a.title = b.title
                       /\ a.chunk = b.chunk
                       /\ a.offset = b.offset
                       /\ a.page_number = b.page_number
                       /\ a.chunk_id = b.chunk_id
                       /\ a.enhanced_metadata = b.enhanced_metadata)

\* C11 witness: two distinct objects with the same fields, the metadata
\* mapping included, were compared and found equal.
C11_Witness ==
    /\ last_op.op = "__eq__"
    /\ last_op.args = <<1, 2>>
    /\ docs[1] = docs[2]
    /\ docs[1].class = "SourceDocumentEnhanced"
    /\ docs[1].enhanced_metadata.kind = "dict"
    /\ last_op.result = PyBool(TRUE)

(* claims about SourceDocumentEnhanced.from_metadata, on SpecMeta *)

\* C19: from_metadata partitions the metadata argument. The document's
\* enhanced_metadata holds exactly the entries whose key is none of id,
\* content, source, title, chunk, offset, page_number, chunk_id; each of those
\* keys except content, when present, sets the field of its name, and when
\* absent the field has its default (the generated id, the source and title
\* derived from the URL, idx as chunk, None for the rest); the content field
\* is the content argument whatever metadata holds.
C19_MetadataPartition ==
    (last_op.op = "from_metadata" /\ last_op.result.kind = "object") =>
        LET d == docs[last_op.result.id]
            content == last_op.args[1]
            metadata == last_op.args[2].fields
            url == urlparse(last_op.args[3].s)
            idx == last_op.args[4]
            reserved == {"id", "content", "source", "title", "chunk", "offset",
                         "page_number", "chunk_id"}
        IN  /\ d.class = "SourceDocumentEnhanced"
            /\ d.enhanced_metadata.kind = "dict"
            /\ DOMAIN d.enhanced_metadata.fields = DOMAIN metadata \ reserved
            /\ \A k \in DOMAIN metadata \ reserved :
                  d.enhanced_metadata.fields[k] = metadata[k]
            /\ \A k \in (reserved \ {"content"}) \cap DOMAIN metadata :
                  d[k] = metadata[k]
            /\ d.content = content
            /\ "id" \notin DOMAIN metadata =>
                  (d.id.kind = "str" /\ d.id.s = <<"doc_">> /\ HasAttr(d.id, "sha1_of"))
            /\ "source" \notin DOMAIN metadata =>
                  /\ d.source.kind = "str"
                  /\ SubSeq(d.source.s, 1, Len(url.scheme) + 1 + Len(url.netloc) + Len(url.path))
                        = url.scheme \o <<"://">> \o url.netloc \o url.path
            /\ "title" \notin DOMAIN metadata => d.title = PyS(url.path)
            /\ "chunk" \notin DOMAIN metadata => d.chunk = idx
            /\ \A k \in {"offset", "page_number", "chunk_id"} \ DOMAIN metadata :
                  d[k] = PyNone

\* C19 witness: metadata held content, id, chunk_id and two open keys; the
\* document has the id and chunk_id of metadata, the content of the content
\* argument and the two open entries as its enhanced_metadata.
C19_Witness ==
    /\ last_op.op = "from_metadata"
    /\ last_op.result.kind = "object"
    /\ DOMAIN last_op.args[2].fields = {"content", "id", "chunk_id", "author", "year"}
    /\ docs[1].content = PyS(<<"a", "b">>)
    /\ docs[1].id = PyS(<<"meta", "id">>)
    /\ DOMAIN docs[1].enhanced_metadata.fields = {"author", "year"}
    /\ docs[1].chunk = PyInt(3)

(* claims about StructuredDocumentChunking.chunk, on SpecChunk *)

RECURSIVE SumLen(_, _)
\* the sum of the content lengths of the first n of the documents ids
SumLen(ids, n) ==
    IF n = 0 THEN 0
    ELSE Len(docs[ids[n].id].content.s) + SumLen(ids, n - 1)

\* C12: the i-th document chunk returns (from 0, in the splitter's order)
\* has chunk index i and as offset the sum of the content lengths of the
\* returned documents before it; the first offset is 0 and the offsets never
\* decrease along the output.
C12_ChunkIndexAndOffset ==
    (last_op.op = "chunk" /\ last_op.result.kind = "list") =>
        LET out == last_op.result.items
        IN  /\ \A i \in DOMAIN out :
                  /\ docs[out[i].id].chunk = PyInt(i - 1)
                  /\ docs[out[i].id].offset = PyInt(SumLen(out, i - 1))
                  /\ docs[out[i].id].content =
                        PieceOf(Join(SubSeq(docs, 1, last_op.args[1])),
                                last_op.args[2][i])
            /\ out # <<>> => docs[out[1].id].offset = PyInt(0)
            /\ \A i \in 1..(Len(out) - 1) :
                  docs[out[i].id].offset.n <= docs[out[i + 1].id].offset.n
            /\ Len(out) = Len(last_op.args[2])

\* C12 witness: two documents were chunked into three chunks of lengths 2, 1
\* and 2, which got the indexes 0, 1, 2 and the offsets 0, 2, 3.
C12_Witness ==
    /\ last_op.op = "chunk"
    /\ last_op.result.kind = "list"
    /\ last_op.args[1] = 2
    /\ Len(last_op.result.items) = 3
    /\ Len(docs) = 5
    /\ <<Len(docs[3].content.s), Len(docs[4].content.s), Len(docs[5].content.s)>>
          = <<2, 1, 2>>
    /\ <<docs[3].chunk, docs[4].chunk, docs[5].chunk>>
          = <<PyInt(0), PyInt(1), PyInt(2)>>
    /\ <<docs[3].offset, docs[4].offset, docs[5].offset>>
          = <<PyInt(0), PyInt(2), PyInt(3)>>

(* the frame of the operations on source documents, on SpecDocs *)

\* C13 (step part): the step leaves every document that exists unchanged.
C13_Frame ==
    \A i \in DOMAIN docs : i \in DOMAIN docs' /\ docs'[i] = docs[i]

\* C13: no operation other than chunking (loading, to_json, from_json,
\* from_dict, FromSourceDocument, ToSourceDocument, equality comparison,
\* string conversion, construction) changes a field of a document that
\* already exists; each leaves its argument documents as they were and at
\* most creates new ones.
C13_OnlyChunkingMutates == [][C13_Frame]_vars

\* C13 witness: an enhanced document with a metadata mapping was converted
\* with ToSourceDocument, and the result was compared with it.
C13_Witness ==
    /\ Len(docs) = 2
    /\ docs[1].class = "SourceDocumentEnhanced"
    /\ docs[1].enhanced_metadata.kind = "dict"
    /\ docs[2].class = "SourceDocument"
    /\ BaseArgs(docs[2]) = BaseArgs(docs[1])
    /\ last_op.op = "__eq__"
    /\ last_op.args = <<1, 2>>

(* claims about the search index and indexer builders, on SpecSearch *)

\* the names of a field list, in order
FieldNames(fields) == [i \in DOMAIN fields |-> fields[i].name]

\* the positions in the index client's request log of the requests call k made
IndexRequestsOf(k) == {i \in DOMAIN index_requests : index_requests[i].call = k}

\* the positions in the indexer client's request log of the requests call k made
IndexerRequestsOf(k) == {i \in DOMAIN indexer_requests : indexer_requests[i].call = k}

VectorFieldsOf(index) == {i \in DOMAIN index.fields : index.fields[i].vector}

\* C15 as stated: the dimension in the vector fields of every index
\* definition is the embedding length that the llm_helper of the instance
\* making the call reports, whatever calls were made before.
C15_NoCachedState ==
    \A i \in DOMAIN index_requests :
        \A f \in VectorFieldsOf(index_requests[i].index) :
            index_requests[i].index.fields[f].vector_search_dimensions
                = embed_len[index_requests[i].client]

\* C15 amended (state part): the dimension in the vector fields of every
\* index definition is the value cached in the class attribute, which is the
\* embedding length reported to the instance that made the first definition.
C15_CachedValue ==
    /\ \A i \in DOMAIN index_requests :
          \A f \in VectorFieldsOf(index_requests[i].index) :
              /\ index_requests[i].index.fields[f].vector_search_dimensions
                    = embed_len[index_requests[1].client]
              /\ _search_dimension = embed_len[index_requests[1].client]
    /\ index_requests = <<>> => _search_dimension = None

\* C15 amended (step part): once set, the class attribute keeps its value.
C15_CacheKept == _search_dimension # None => _search_dimension' = _search_dimension

\* C15 amended: the index builder caches the vector dimension in the class
\* attribute _search_dimension: the first index definition built sets it to
\* the embedding length of the building instance's llm_helper, and all
\* vector fields of all definitions, by any instance, carry that value.
C15_DimensionCachedOnce == [](C15_CachedValue) /\ [][C15_CacheKept]_vars

\* C15 witness: two instances whose llm_helpers report different lengths
\* have each submitted a definition, and both carry the first one's length.
C15_Witness ==
    /\ Len(index_requests) = 2
    /\ index_requests[1].client # index_requests[2].client
    /\ embed_len[index_requests[1].client] # embed_len[index_requests[2].client]
    /\ index_requests[2].index.fields[3].vector
    /\ index_requests[2].index.fields[3].vector_search_dimensions
          = embed_len[index_requests[1].client]

\* C16: create_or_update_indexer and create_or_update_researcher_indexer
\* each issue one create-or-update request and then one run request for the
\* indexer name they were called with; when the create-or-update request
\* fails no run request follows, no request is repeated and the call ends
\* with the exception.
C16_CreateThenRun ==
    \A k \in DOMAIN search_calls :
        search_calls[k].op \in {"create_or_update_indexer",
                                "create_or_update_researcher_indexer"} =>
            LET reqs == IndexerRequestsOf(k)
                creates == {i \in reqs : indexer_requests[i].request
                                            = "create_or_update_indexer"}
                runs == {i \in reqs : indexer_requests[i].request = "run_indexer"}
            IN  /\ Cardinality(creates) = 1
                /\ Cardinality(runs) <= 1
                /\ reqs = creates \cup runs
                /\ \A i \in reqs : indexer_requests[i].name = search_calls[k].arg
                /\ \A i \in creates, j \in runs : i < j
                /\ search_calls[k].outcome = "return" => Cardinality(runs) = 1
                /\ search_calls[k].at = "create_or_update_indexer" =>
                      (runs = {} /\ search_calls[k].outcome = "raise")
                /\ search_calls[k].at = "run_indexer" =>
                      (Cardinality(runs) = 1 /\ search_calls[k].outcome = "raise")

\* C16 witness: a call of the researcher variant whose create-or-update
\* request failed, then a call of the standard variant that returned: three
\* requests in all.
C16_Witness ==
    /\ Len(search_calls) = 2
    /\ search_calls[1].op = "create_or_update_researcher_indexer"
    /\ search_calls[1].at = "create_or_update_indexer"
    /\ search_calls[2].op = "create_or_update_indexer"
    /\ search_calls[2].outcome = "return"
    /\ Len(indexer_requests) = 3
    /\ indexer_requests[3].request = "run_indexer"

(* the shape of the dictionaries _load_schema_from_dict returns, on SpecJson *)

\* a dictionary, or a list with a dictionary among its items
IsNested(v) ==
    \/ v.kind = "dict"
    \/ /\ v.kind = "list"
       /\ \E i \in DOMAIN v.items : v.items[i].kind = "dict"

\* C20 as stated: the content and metadata dictionaries of a load that
\* succeeded are flat: no key of either holds a dictionary or a list of
\* dictionaries. (The payloads' own field values are flat, except for
\* publications, so whatever is nested was built by the loader.)
C20_Flat ==
    (load_pc \in {"wrap", "done"} /\ raised = NoException) =>
        /\ \A k \in DOMAIN return_dict.content : ~IsNested(return_dict.content[k])
        /\ \A k \in DOMAIN return_dict.metadata : ~IsNested(return_dict.metadata[k])

\* C20 amended: under every key but publications the loader stores the
\* payload's own value for the key (None when the payload has none) and
\* builds nothing; under the publications key of content, which the default
\* content type has and no other type, it builds a list with one dictionary
\* per publication of the payload, holding that publication's values for the
\* content-publications keys.
C20_NestedOnlyUnderPublications ==
    (load_pc \in {"wrap", "done"} /\ raised = NoException) =>
        LET content == return_dict.content
            metadata == return_dict.metadata
        IN  /\ \A k \in DOMAIN content \ {"publications"} :
                  content[k] = (IF k \in DOMAIN data.fields
                                THEN data.fields[k] ELSE PyNone)
            /\ \A k \in DOMAIN metadata \ {"publications"} :
                  metadata[k] = (IF k \in DOMAIN data.fields
                                 THEN data.fields[k] ELSE PyNone)
            /\ ("publications" \in DOMAIN content) <=> (DocType = "CONTENT")
            /\ "publications" \in DOMAIN content =>
                  /\ content["publications"].kind = "list"
                  /\ Pubs.kind \in {"list", "dict"}
                  /\ Len(content["publications"].items) =
                        (IF Pubs.kind = "list" THEN Len(Pubs.items) ELSE 0)
                  /\ \A i \in DOMAIN content["publications"].items :
                        LET built == content["publications"].items[i]
                        IN  /\ built.kind = "dict"
                            /\ DOMAIN built.fields = Range(_content_publications_keys)
                            /\ \A k \in DOMAIN built.fields :
                                  built.fields[k] =
                                     (IF k \in DOMAIN Pubs.items[i].fields
                                      THEN Pubs.items[i].fields[k] ELSE PyNone)

\* C20 witness: a payload of the default content type with two publications
\* was loaded, and its content holds a list of two dictionaries.
C20_Witness ==
    /\ load_pc = "done"
    /\ raised = NoException
    /\ DocType = "CONTENT"
    /\ "publications" \in DOMAIN return_dict.content
    /\ return_dict.content["publications"].kind = "list"
    /\ Len(return_dict.content["publications"].items) = 2
    /\ return_dict.content["publications"].items[2].kind = "dict"

(* claims about the ids of several from_metadata calls, on SpecIds *)

\* the URL up to its query string and fragment: what is before the first
\* "?" or "#"
UrlWithoutQueryAndFragment(u) == SubSeq(u, 1, FirstIdx(u, {"?", "#"}, 1) - 1)

\* the calls made so far that returned a document with a generated id
GeneratedIdCalls ==
    {k \in DOMAIN last_op.result.items :
        /\ last_op.result.items[k].kind = "object"
        /\ "id" \notin DOMAIN last_op.args[k][2].fields}

\* C21: the generated id is doc_ and a digest that depends on the URL
\* without its query string and fragment and on idx only: two calls whose
\* metadata has no id return documents of the same id exactly when their
\* URLs agree up to the query string and fragment and their idx agree.
C21_IdOfUrlAndIdx ==
    last_op.op = "calls" =>
        \A i, j \in GeneratedIdCalls :
            LET di == docs[last_op.result.items[i].id]
                dj == docs[last_op.result.items[j].id]
                ai == last_op.args[i]
                aj == last_op.args[j]
            IN  /\ di.id.s = <<"doc_">>
                /\ (di.id = dj.id) <=>
                      /\ UrlWithoutQueryAndFragment(ai[3].s)
                            = UrlWithoutQueryAndFragment(aj[3].s)
                      /\ ai[4] = aj[4]

\* C21 witness: two calls without an id in metadata, with URLs that differ
\* in the query string and fragment only and the same idx, returned two
\* documents of one id.
C21_Witness ==
    /\ last_op.op = "calls"
    /\ Len(last_op.result.items) = MaxIdCalls
    /\ {1, 2} \subseteq GeneratedIdCalls
    /\ last_op.args[1][3] # last_op.args[2][3]
    /\ "?" \in Range(last_op.args[1][3].s)
    /\ last_op.args[1][4] = PyInt(3) /\ last_op.args[2][4] = PyInt(3)
    /\ docs[1].id = docs[2].id
    /\ docs[1].source = docs[2].source

(* claims about the indexer's field mappings and the index, on SpecSearch *)

\* the target field names of an indexer definition's field mappings
TargetFieldNames(indexer) ==
    {indexer.field_mappings[m].target_field_name : m \in DOMAIN indexer.field_mappings}

\* the index definition of request i is of the research assistant variant
ResearcherIndexRequest(i) ==
    search_calls[index_requests[i].call].arg = "research assistant"

\* C22: every target field name of every field mapping of an indexer
\* definition submitted is the name of a field of every index definition
\* submitted for the same variant (standard indexer and standard index,
\* researcher indexer and researcher index).
C22_MappingTargetsAreIndexFields ==
    \A i \in DOMAIN index_requests, j \in DOMAIN indexer_requests :
        (/\ indexer_requests[j].request = "create_or_update_indexer"
         /\ indexer_requests[j].researcher = ResearcherIndexRequest(i)) =>
            TargetFieldNames(indexer_requests[j])
                \subseteq Range(FieldNames(index_requests[i].index.fields))

(* claims about the skillset, on SpecSearch *)

\* the skillset of request i is of the research assistant variant
ResearcherSkillsetRequest(i) ==
    search_calls[skillset_requests[i].call].op = "create_researcher_skillset"

\* the field names a selector refers to in the index it targets
SelectorFieldNames(selector) ==
    {selector.parent_key_field_name}
        \cup {selector.mappings[m].name : m \in DOMAIN selector.mappings}

\* C23: every selector of the index projection of a skillset submitted
\* targets the index named AZURE_SEARCH_INDEX, which is the target index of
\* every indexer definition submitted, and its parent key field name and the
\* names of its mappings are names of fields of every index definition
\* submitted for the same variant.
C23_ProjectionIntoIndex ==
    \A s \in DOMAIN skillset_requests :
        LET projections == skillset_requests[s].skillset.index_projections
        IN  \A p \in DOMAIN projections.selectors :
              LET selector == projections.selectors[p]
              IN  /\ selector.target_index_name = env_helper.AZURE_SEARCH_INDEX
                  /\ \A j \in DOMAIN indexer_requests :
                        indexer_requests[j].request = "create_or_update_indexer" =>
                            indexer_requests[j].target_index_name
                                = selector.target_index_name
                  /\ \A i \in DOMAIN index_requests :
                        ResearcherIndexRequest(i) = ResearcherSkillsetRequest(s) =>
                            /\ index_requests[i].index.name = selector.target_index_name
                            /\ SelectorFieldNames(selector) \subseteq
                                  Range(FieldNames(index_requests[i].index.fields))

\* C23 witness: the researcher skillset and the researcher index were
\* submitted; the selector's 33 names, proposal_url and Task_vector among
\* them, are fields of the index.
C23_Witness ==
    /\ Len(skillset_requests) = 1
    /\ Len(index_requests) = 1
    /\ ResearcherSkillsetRequest(1)
    /\ ResearcherIndexRequest(1)
    /\ Cardinality(SelectorFieldNames(
          skillset_requests[1].skillset.index_projections.selectors[1])) = 33
    /\ {"id", "proposal_url", "Task_vector"} \subseteq SelectorFieldNames(
          skillset_requests[1].skillset.index_projections.selectors[1])

(* the offsets of the chunks as positions, on SpecChunk *)

\* the text occurs in the whole text from character position at (from 0) on
OccursAt(whole, text, at) ==
    /\ at + Len(text) <= Len(whole)
    /\ SubSeq(whole, at + 1, at + Len(text)) = text

\* C24: the content of every document chunk returns occurs in the
\* concatenation of the contents of the documents it was called with, from
\* the character position that is the document's offset on.
C24_OffsetIsPosition ==
    (last_op.op = "chunk" /\ last_op.result.kind = "list") =>
        \A i \in DOMAIN last_op.result.items :
            LET d == docs[last_op.result.items[i].id]
            IN  OccursAt(Join(SubSeq(docs, 1, last_op.args[1])),
                         d.content.s, d.offset.n)

(* the document type of a URL, on SpecJson *)

\* the substrings looked for, in the order of the claim, and the type each
\* stands for
TypeOrder ==
    <<[substring |-> "_cluster_info.json", type |-> "CLUSTER"],
      [substring |-> "afmr_summary2.json", type |-> "SUMMARY"],
      [substring |-> "_pm.json", type |-> "PROGRAM_MANAGER"],
      [substring |-> "_pub.json", type |-> "PUBLICATIONS"]>>

\* the positions in TypeOrder of the substrings the URL contains
Matches(url) == {i \in DOMAIN TypeOrder : Contains(url, TypeOrder[i].substring)}

\* the type of the first in TypeOrder that the URL contains, the default
\* content type if it contains none
FirstMatch(url) ==
    IF Matches(url) = {} THEN "CONTENT"
    ELSE TypeOrder[CHOOSE i \in Matches(url) : \A j \in Matches(url) : i <= j].type

\* C25: the document type of the URL load was called with is the type of the
\* first of _cluster_info.json, afmr_summary2.json, _pm.json, _pub.json (in
\* this order) that the URL contains, and the default content type if it
\* contains none; it is never the content-publications type; and a payload
\* that got through the loop over the content keys has the content keys of
\* that type.
C25_TypeByFirstMatch ==
    /\ _get_json_document_type(document_url) = FirstMatch(document_url)
    /\ _get_json_document_type(document_url) # "CONTENT_PUBLICATIONS"
    /\ (load_pc \in {"metadata", "wrap", "done"} /\ raised = NoException) =>
          /\ DOMAIN return_dict.content = Range(_key_fields[FirstMatch(document_url)])
          /\ DOMAIN return_dict.content # Range(_key_fields["CONTENT_PUBLICATIONS"])

\* C25 witness: a URL that contains _pub.json and, after it,
\* _cluster_info.json was loaded as a cluster document.
C25_Witness ==
    /\ load_pc = "done"
    /\ raised = NoException
    /\ Matches(document_url) = {1, 4}
    /\ document_url[3] = "_pub.json"
    /\ DOMAIN return_dict.content = Range(_cluster_keys)
    /\ Len(source_documents) = 1

(* the JSON round trip of an enhanced document, on SpecDocs *)

RECURSIVE JsonRepresentable(_)
\* the value is a JSON value: None, a str, an int, a bool, a list of JSON
\* values or a dictionary of JSON values under str keys
JsonRepresentable(v) ==
    IF v.kind \in {"None", "str", "int", "bool"} THEN TRUE
    ELSE IF v.kind = "list"
    THEN \A i \in DOMAIN v.items : JsonRepresentable(v.items[i])
    ELSE IF v.kind = "dict"
    THEN \A k \in DOMAIN v.fields : JsonRepresentable(v.fields[k])
    ELSE FALSE

\* the nine fields of an enhanced document
NineFields == Range(BaseFields) \cup {"enhanced_metadata"}

\* C26: when from_json has returned for the text that to_json returned for a
\* SourceDocumentEnhanced d whose nine fields are JSON values, the object it
\* returned is a SourceDocumentEnhanced, another object than d, with each of
\* its nine fields equal to d's, and it is equal to d by __eq__ in both
\* directions.
C26_JsonRoundTrip ==
    last_op.op = "from_json" =>
        LET d == docs[last_op.args[1]]
            r == docs[last_op.result.id]
        IN  (\A f \in NineFields : JsonRepresentable(d[f])) =>
                /\ r.class = "SourceDocumentEnhanced"
                /\ last_op.result.id # last_op.args[1]
                /\ \A f \in NineFields : r[f] = d[f]
                /\ SourceDocumentEnhanced_eq(d, r) = PyBool(TRUE)
                /\ SourceDocumentEnhanced_eq(r, d) = PyBool(TRUE)

\* C26 witness: a document whose enhanced_metadata holds a list of a str, an
\* int, a bool and None went through to_json and from_json, and the second
\* document has the same list.
C26_Witness ==
    /\ last_op.op = "from_json"
    /\ last_op.args = <<1>>
    /\ last_op.result = PyRef(2)
    /\ docs[1].enhanced_metadata.kind = "dict"
    /\ "author" \in DOMAIN docs[1].enhanced_metadata.fields
    /\ docs[1].enhanced_metadata.fields["author"].kind = "list"
    /\ Len(docs[2].enhanced_metadata.fields["author"].items) = 4
    /\ docs[2].chunk_id = PyS(<<"c0">>)

(* equality of an enhanced document with a plain one, on SpecDocs *)

\* C27: a comparison with == in which one operand is a
\* SourceDocumentEnhanced and the other a SourceDocumentEnhanced or a plain
\* SourceDocument returns a bool and never raises, whichever of the two is
\* the left operand, and the comparison with the operands exchanged gives
\* the same bool.
C27_EqTotalSymmetric ==
    last_op.op \in {"__eq__", "__eq__ reflected"} =>
        LET left == docs[last_op.args[1]]
            right == docs[last_op.args[2]]
            exchanged == IF right.class = "SourceDocumentEnhanced"
                         THEN SourceDocumentEnhanced_eq(right, left)
                         ELSE SourceDocumentEnhanced_eq(left, right)
        IN  /\ last_op.result.kind = "bool"
            /\ exchanged = last_op.result

(* the flow of data through the standard skillset, on SpecSearch *)

\* the paths a skill writes: its context and the target name of an output
OutputPaths(skill) ==
    {skill.context \o <<skill.outputs[o].target_name>> : o \in DOMAIN skill.outputs}

\* the path is an output of the skill, or the elements of one (path/*)
ReadsOutputOf(path, skill) ==
    \E out \in OutputPaths(skill) : path = out \/ path = out \o <<"*">>

\* the path is produced by the indexer's document extraction: the content,
\* or the normalized images and what is under them that no skill writes
ExtractedPath(path, skills) ==
    \/ path = <<"document", "content">>
    \/ /\ Len(path) >= 3
       /\ SubSeq(path, 1, 3) = <<"document", "normalized_images", "*">>
       /\ \A k \in DOMAIN skills : path \notin OutputPaths(skills[k])

\* the path is a field of the document itself that no skill writes
DocumentLevelField(path, skills) ==
    /\ Len(path) = 2
    /\ path[1] = "document"
    /\ \A k \in DOMAIN skills : path \notin OutputPaths(skills[k])

\* C28: in every standard skillset submitted the skills are the OCR, merge,
\* split and embedding skill in this order; every input of a skill is a path
\* the document extraction produces or an output of a skill earlier in the
\* list; and every mapping of the index projection reads an output of the
\* split or of the embedding skill, or a document-level field. Every
\* standard indexer definition submitted asks the extraction for the content
\* and for normalized images.
C28_ForwardDataFlow ==
    /\ \A j \in DOMAIN indexer_requests :
          (/\ indexer_requests[j].request = "create_or_update_indexer"
           /\ ~indexer_requests[j].researcher) =>
              /\ indexer_requests[j].configuration.dataToExtract = "contentAndMetadata"
              /\ indexer_requests[j].configuration.imageAction
                    = "generateNormalizedImages"
    /\ \A s \in DOMAIN skillset_requests :
        ~ResearcherSkillsetRequest(s) =>
            LET skills == skillset_requests[s].skillset.skills
                selector == skillset_requests[s].skillset.index_projections.selectors[1]
            IN  /\ [k \in DOMAIN skills |-> skills[k].type]
                      = <<"OcrSkill", "MergeSkill", "SplitSkill",
                          "AzureOpenAIEmbeddingSkill">>
                /\ \A k \in DOMAIN skills : \A i \in DOMAIN skills[k].inputs :
                      \/ ExtractedPath(skills[k].inputs[i].source, skills)
                      \/ \E e \in 1..(k - 1) :
                            ReadsOutputOf(skills[k].inputs[i].source, skills[e])
                /\ Len(skillset_requests[s].skillset.index_projections.selectors) = 1
                /\ \A m \in DOMAIN selector.mappings :
                      \/ ReadsOutputOf(selector.mappings[m].source, skills[3])
                      \/ ReadsOutputOf(selector.mappings[m].source, skills[4])
                      \/ DocumentLevelField(selector.mappings[m].source, skills)

\* C28 witness: a standard skillset was submitted whose merge skill, second
\* in the list, reads the text the OCR skill, first in the list, writes, and
\* whose projection reads the vectors the embedding skill writes.
C28_Witness ==
    /\ Len(skillset_requests) >= 1
    /\ ~ResearcherSkillsetRequest(1)
    /\ search_calls[skillset_requests[1].call].outcome = "return"
    /\ \E i \in DOMAIN skillset_requests[1].skillset.skills[2].inputs :
          skillset_requests[1].skillset.skills[2].inputs[i].source
              \in OutputPaths(skillset_requests[1].skillset.skills[1])
    /\ \E m \in DOMAIN skillset_requests[1].skillset.index_projections.selectors[1].mappings :
          skillset_requests[1].skillset.index_projections.selectors[1].mappings[m].source
              \in OutputPaths(skillset_requests[1].skillset.skills[4])

(* the vector search configuration of the index definitions, on SpecSearch *)

\* the names of the profiles of a vector search configuration
ProfileNames(vector_search) ==
    {vector_search.profiles[p].name : p \in DOMAIN vector_search.profiles}

\* C29: in every index definition submitted, of either variant, every
\* vector field names a profile of the definition's vector search
\* configuration, and every profile of that configuration names one of its
\* algorithm configurations and one of its vectorizers.
C29_VectorSearchClosed ==
    \A i \in DOMAIN index_requests :
        LET index == index_requests[i].index
        IN  /\ \A f \in VectorFieldsOf(index) :
                  index.fields[f].vector_search_profile_name
                      \in ProfileNames(index.vector_search)
            /\ \A p \in DOMAIN index.vector_search.profiles :
                  /\ index.vector_search.profiles[p].algorithm_configuration_name
                        \in Range(index.vector_search.algorithms)
                  /\ index.vector_search.profiles[p].vectorizer
                        \in Range(index.vector_search.vectorizers)

\* C29 witness: a standard index definition with its one vector field and a
\* researcher index definition with its ten vector fields were submitted,
\* each with the two profiles.
C29_Witness ==
    /\ Len(index_requests) = 2
    /\ ~ResearcherIndexRequest(1)
    /\ ResearcherIndexRequest(2)
    /\ Cardinality(VectorFieldsOf(index_requests[1].index)) = 1
    /\ Cardinality(VectorFieldsOf(index_requests[2].index)) = 10
    /\ \A i \in {1, 2} :
          ProfileNames(index_requests[i].index.vector_search)
              = {"myHnswProfile", "myExhaustiveKnnProfile"}

(* strict mode, on SpecStrict *)

\* C30: every settings object that a call of JsonDocumentSettings() has
\* returned has been initialised and its get_strict_keys() is false, in
\* every state that construction, clear_instance and load lead to, and no
\* load has raised the "must contain the field" ValueError.
C30_StrictNeverOn ==
    /\ \A o \in returned \ {None} :
          /\ heap[o].inits >= 1
          /\ get_strict_keys(o) = FALSE
    /\ ~(raised.type = "ValueError" /\ raised.msg = "must contain the field")

\* C30 witness: clear_instance has run, and a payload without any field has
\* been loaded as a cluster document without an error, every content field
\* None.
C30_Witness ==
    /\ load_pc = "done"
    /\ clears = 1
    /\ raised = NoException
    /\ data = PyDict(<<>>)
    /\ _get_json_document_type(document_url) = "CLUSTER"
    /\ Len(source_documents) = 1
    /\ \A k \in Range(_cluster_keys) : return_dict.content[k] = PyNone
    /\ get_strict_keys(ret[MainThread].settings) = FALSE

=============================================================================
